---- MODULE Spec2Model ----
(***************************************************************************)
(* Finite automata of "Understanding Computation", chapter 3: the          *)
(* deterministic and nondeterministic engines and the subset construction  *)
(* (NFASimulation).  Every operator is named after the method it models.   *)
(***************************************************************************)
EXTENDS Integers, Sequences, FiniteSets, TLC

VARIABLES
  nfaDesign,   \* the NFADesign under study: startState, acceptStates, rulebook
  nfa,         \* an NFA machine: its raw field _currentStates
  input,       \* the symbols read so far by the machine(s)
  dfaDesign,   \* a DFADesign / EquivalenceAdaptedDFADesign
  dfa,         \* a DFA machine: its field currentState
  last,        \* what the most recent call did (operation, arguments, outcome)
  ff,          \* the activation of followFreeMoves that is running, if any
  calls,       \* the results DFADesign.accepts has returned for one input
  pair         \* two machines spawned from one design, and what each has read

\* The regular expressions of chapter 3.
VARIABLES
  pattern,          \* the Pattern under study
  statesGenerator,  \* the module's generator `states`: its local `state`
                    \* and, for the record, every value it has yielded
  compiled,         \* what the latest toNFADesign() returned
  answer            \* what the latest matches() / toString() returned

\* The subset construction, one round at a time.
VARIABLES
  discovery         \* the activation of discoverStatesAndRules that is running

\* The pushdown automata of chapter 4.
VARIABLES
  dpdaDesign,       \* the DPDADesign under study
  dpda,             \* a DPDA machine: its raw field _currentConfiguration
  consumed,         \* the characters the machine has been handed so far
  verdict           \* the last call of DPDADesign.accepts and what it returned

\* The small-step semantics of chapter 2.
VARIABLES
  statementMachine, \* an SStatementMachine: its fields statement, environment
  program,          \* the statement and environment the machine was made of
  reduction         \* the latest call of a reduce(): its receiver, its
                    \* argument and what it returned

automata == <<nfaDesign, nfa, input, dfaDesign, dfa, last, ff, calls>>
regex == <<pattern, statesGenerator, compiled, answer>>
pushdown == <<dpdaDesign, dpda, consumed, verdict>>
semantics == <<statementMachine, program, reduction>>

\* The state of the programs other than the automata.
later == <<regex, discovery, pushdown, semantics>>

\* What the actions of one part of the model leave alone.
beyondRegex == <<automata, pair, discovery, pushdown, semantics>>
beyondDiscovery == <<nfa, input, dfaDesign, dfa, last, ff, calls, pair,
                     regex, pushdown, semantics>>
beyondPushdown == <<automata, pair, regex, discovery, semantics>>
beyondSemantics == <<automata, pair, regex, discovery, pushdown>>

vars == <<automata, pair, later>>

-----------------------------------------------------------------------------
(* Bounds of the model and the universes the inputs are drawn from.         *)

MaxRules == 2        \* rules in an enumerated NFA rulebook
MaxLen == 3          \* symbols read by a machine of an enumerated design
MaxExampleLen == 6   \* symbols read by a machine of one of the source's examples
MaxFreeRules == 3    \* rules in a rulebook handed to followFreeMoves alone
MaxDFARules == 1     \* rules in an enumerated DFA rulebook
MaxDFALen == 2       \* symbols of a string handed to an enumerated DFA design

States == {1, 2, 3}
Symbols == {"a", "b"}
\* The source writes the free move as the one-character string U+03B5.
EPSILON == "eps"

Range(s) == {s[i] : i \in 1..Len(s)}
SeqsUpTo(S, n) == UNION {[1..k -> S] : k \in 0..n}

Rule(state, character, nextState) ==
  [state |-> state, character |-> character, nextState |-> nextState]

NFARules == [state : States, character : Symbols \cup {EPSILON}, nextState : States]

\* An enumerated rulebook lists distinct rules, ordered by state, then
\* character, then next state: the NFA engine never looks at the position of
\* a rule, and both orders of first appearance of the symbols still occur.
CharacterIndex(character) ==
  IF character = "a" THEN 0 ELSE IF character = "b" THEN 1 ELSE 2

RuleIndex(rule) == rule.state * 100 + CharacterIndex(rule.character) * 10 + rule.nextState

Rulebooks(n) ==
  {rulebook \in SeqsUpTo(NFARules, n) :
     \A i \in 1..(Len(rulebook) - 1) : RuleIndex(rulebook[i]) < RuleIndex(rulebook[i + 1])}

-----------------------------------------------------------------------------
(* FARule, number-valued states (the NFA engine's rules).                   *)

\* Mutant: a rule applies in its state whatever the character.
FARule_appliesTo_anyCharacter(rule, state, character) ==
  rule.state = state

FARule_appliesTo(rule, state, character) ==
  rule.state = state /\ rule.character = character

FARule_follow(rule) == rule.nextState

-----------------------------------------------------------------------------
(* NFARulebook                                                              *)

\* Mutant: only the first applicable rule, as a DFA rulebook's find would.
NFARulebook_rulesFor_first(rulebook, state, character) ==
  LET rules == SelectSeq(rulebook, LAMBDA rule : FARule_appliesTo(rule, state, character))
  IN  IF rules = <<>> THEN <<>> ELSE <<rules[1]>>

NFARulebook_rulesFor(rulebook, state, character) ==
  SelectSeq(rulebook, LAMBDA rule : FARule_appliesTo(rule, state, character))

NFARulebook_followRulesFor(rulebook, state, character) ==
  LET rules == NFARulebook_rulesFor(rulebook, state, character)
  IN  [i \in 1..Len(rules) |-> FARule_follow(rules[i])]

\* Mutant: a read that matches no rule leaves the states as they were.
NFARulebook_nextStates_stay(rulebook, states, character) ==
  LET result == UNION {Range(NFARulebook_followRulesFor(rulebook, state, character)) :
                         state \in states}
  IN  IF result = {} THEN states ELSE result

\* new Set(Array.from(states).flatMap(followRulesFor))
NFARulebook_nextStates(rulebook, states, character) ==
  UNION {Range(NFARulebook_followRulesFor(rulebook, state, character)) : state \in states}

\* Mutant: stop only when the free moves lead nowhere at all.
FreeMovesAddNothing_none(states, moreStates) == moreStates = {}

\* The test of followFreeMoves: every state of moreStates is already in states.
FreeMovesAddNothing(states, moreStates) ==
  \A state \in moreStates : state \in states

\* Mutant: one round of free moves, no recursion.
NFARulebook_followFreeMoves_once(rulebook, states) ==
  states \cup NFARulebook_nextStates(rulebook, states, EPSILON)

RECURSIVE NFARulebook_followFreeMoves(_, _)
NFARulebook_followFreeMoves(rulebook, states) ==
  LET moreStates == NFARulebook_nextStates(rulebook, states, EPSILON)
  IN  IF FreeMovesAddNothing(states, moreStates)
        THEN states
        ELSE NFARulebook_followFreeMoves(rulebook, states \cup moreStates)

-----------------------------------------------------------------------------
(* NFA: the machine.  Its only assigned field is the raw _currentStates;    *)
(* acceptStates and rulebook are the design's, shared by reference.         *)

NFA_new(currentStates) == [rawCurrentStates |-> currentStates]

\* Mutant: the getter hands out the raw field.
NFA_currentStates_raw(design, machine) == machine.rawCurrentStates

\* get currentStates()
NFA_currentStates(design, machine) ==
  NFARulebook_followFreeMoves(design.rulebook, machine.rawCurrentStates)

\* Mutant: accepting only when every current state is an accept state.
NFA_accepting_all(design, machine) ==
  \A state \in NFA_currentStates(design, machine) : state \in design.acceptStates

NFA_accepting(design, machine) ==
  \E state \in NFA_currentStates(design, machine) : state \in design.acceptStates

\* this.currentStates = rulebook.nextStates(this.currentStates, character)
NFA_readCharacter(design, machine, character) ==
  [machine EXCEPT !.rawCurrentStates =
     NFARulebook_nextStates(design.rulebook, NFA_currentStates(design, machine), character)]

RECURSIVE NFA_readString(_, _, _)
NFA_readString(design, machine, string) ==
  IF string = <<>>
    THEN machine
    ELSE NFA_readString(design, NFA_readCharacter(design, machine, Head(string)), Tail(string))

-----------------------------------------------------------------------------
(* NFADesign                                                                *)

NFADesign_toNFA(design) == NFA_new({design.startState})

NFADesign_accepts(design, string) ==
  NFA_accepting(design, NFA_readString(design, NFADesign_toNFA(design), string))

NFADesign(startState, acceptStates, rulebook) ==
  [startState |-> startState, acceptStates |-> acceptStates, rulebook |-> rulebook]

\* The designs the source itself builds.
OverlapNFADesign ==
  NFADesign(1, {4},
    << Rule(1, "a", 1), Rule(1, "b", 1), Rule(1, "b", 2),
       Rule(2, "a", 3), Rule(2, "b", 3),
       Rule(3, "a", 4), Rule(3, "b", 4) >>)

SixStateNFADesign ==
  NFADesign(1, {2, 4},
    << Rule(1, EPSILON, 2), Rule(1, EPSILON, 4),
       Rule(2, "a", 3), Rule(3, "a", 2),
       Rule(4, "a", 5), Rule(5, "a", 6), Rule(6, "a", 4) >>)

EquivalenceNFADesign ==
  NFADesign(1, {3},
    << Rule(1, "a", 1), Rule(1, "a", 2), Rule(1, EPSILON, 2),
       Rule(2, "b", 3),
       Rule(3, "b", 1), Rule(3, EPSILON, 2) >>)

ExampleNFADesigns == {OverlapNFADesign, SixStateNFADesign, EquivalenceNFADesign}

EnumeratedNFADesigns ==
  [startState : States, acceptStates : SUBSET States,
   rulebook : Rulebooks(MaxRules)]

NFADesigns == EnumeratedNFADesigns \cup ExampleNFADesigns

InputBound(design) ==
  IF design \in ExampleNFADesigns THEN MaxExampleLen ELSE MaxLen

-----------------------------------------------------------------------------
(* The DFA engine.  The source holds it in three forms:                     *)
(*   "scalar"   number-valued states, acceptStates an array of numbers;     *)
(*   "set"      Set<number> states, acceptStates one Set<number>;           *)
(*   "adapted"  Set<number> states, acceptStates an array of sets           *)
(*              (EquivalenceAdaptedDFA, the output of the subset            *)
(*              construction).                                              *)
(* A call returns [thrown, value]: thrown names the exception that left     *)
(* the call, "none" when it returned.                                       *)

\* FARule.appliesTo over Set<number> states.
SetFARule_appliesTo(rule, state, character) ==
  character = rule.character /\ state \subseteq rule.state

DFARule_appliesTo(form, rule, state, character) ==
  IF form = "scalar"
    THEN FARule_appliesTo(rule, state, character)
    ELSE SetFARule_appliesTo(rule, state, character)

\* What Array.prototype.find returns when no element passes.
Undefined == [undefined |-> TRUE]

Returned(value) == [thrown |-> "none", value |-> value]
Thrown(exception, value) == [thrown |-> exception, value |-> value]

\* rules.find(rule => rule.appliesTo(state, character)); the set forms throw
\* Error when nothing is found, the scalar form returns undefined.
DFARulebook_ruleFor(form, rulebook, state, character) ==
  LET found == SelectSeq(rulebook,
                 LAMBDA rule : DFARule_appliesTo(form, rule, state, character))
  IN  IF found # <<>>
        THEN Returned(found[1])
        ELSE IF form = "scalar" THEN Returned(Undefined) ELSE Thrown("Error", Undefined)

\* ruleFor(state, character).follow(); undefined.follow() is a TypeError.
DFARulebook_nextState(form, rulebook, state, character) ==
  LET rule == DFARulebook_ruleFor(form, rulebook, state, character)
  IN  IF rule.thrown # "none"
        THEN Thrown(rule.thrown, state)
        ELSE IF rule.value = Undefined
               THEN Thrown("TypeError", state)
               ELSE Returned(FARule_follow(rule.value))

DFA_new(currentState) == [currentState |-> currentState]

\* Mutant: accepting when the current state is within some accept state.
DFA_accepting_within(design, machine) ==
  CASE design.form = "scalar" -> machine.currentState \in design.acceptStates
    [] design.form = "set" -> design.acceptStates \subseteq machine.currentState
    [] design.form = "adapted" ->
         \E i \in 1..Len(design.acceptStates) :
            machine.currentState \subseteq design.acceptStates[i]

DFA_accepting(design, machine) ==
  CASE design.form = "scalar" -> machine.currentState \in design.acceptStates
    [] design.form = "set" -> machine.currentState \subseteq design.acceptStates
    [] design.form = "adapted" ->
         \E i \in 1..Len(design.acceptStates) :
            design.acceptStates[i] \ machine.currentState = {}

\* this.currentState = this.rulebook.nextState(this.currentState, character):
\* when nextState throws, nothing is assigned.
\* Mutant: a read that finds no rule puts the machine back in the design's
\* start state.
DFA_readCharacter_restart(design, machine, character) ==
  LET next == DFARulebook_nextState(design.form, design.rulebook,
                                    machine.currentState, character)
  IN  IF next.thrown # "none"
        THEN Thrown(next.thrown, [machine EXCEPT !.currentState = design.startState])
        ELSE Returned([machine EXCEPT !.currentState = next.value])

DFA_readCharacter(design, machine, character) ==
  LET next == DFARulebook_nextState(design.form, design.rulebook,
                                    machine.currentState, character)
  IN  IF next.thrown # "none"
        THEN Thrown(next.thrown, machine)
        ELSE Returned([machine EXCEPT !.currentState = next.value])

\* Mutant: the loop ends as soon as the machine is accepting.
RECURSIVE DFA_readString_untilAccepting(_, _, _)
DFA_readString_untilAccepting(design, machine, string) ==
  IF string = <<>> \/ DFA_accepting(design, machine)
    THEN Returned(machine)
    ELSE LET read == DFA_readCharacter(design, machine, Head(string))
         IN  IF read.thrown # "none"
               THEN read
               ELSE DFA_readString_untilAccepting(design, read.value, Tail(string))

RECURSIVE DFA_readString(_, _, _)
DFA_readString(design, machine, string) ==
  IF string = <<>>
    THEN Returned(machine)
    ELSE LET read == DFA_readCharacter(design, machine, Head(string))
         IN  IF read.thrown # "none"
               THEN read
               ELSE DFA_readString(design, read.value, Tail(string))

\* Mutant: the design hands out the machine it handed out before.
DFADesign_toDFA_shared(design) == dfa

DFADesign_toDFA(design) == DFA_new(design.startState)

DFADesign_accepts(design, string) ==
  LET read == DFA_readString(design, DFADesign_toDFA(design), string)
  IN  IF read.thrown # "none"
        THEN Thrown(read.thrown, FALSE)
        ELSE Returned(DFA_accepting(design, read.value))

DFADesign(form, startState, acceptStates, rulebook) ==
  [form |-> form, startState |-> startState, acceptStates |-> acceptStates,
   rulebook |-> rulebook]

\* The designs the source itself builds, in the scalar and in the set form.
ScalarDFADesign ==
  DFADesign("scalar", 0, {2}, << Rule(0, "a", 1), Rule(0, "b", 0), Rule(1, "b", 2) >>)

\* The design of the readString test: 1 accepts, "ab" leads through it to 2.
ReadStringTestDFADesign ==
  DFADesign("scalar", 0, {1}, << Rule(0, "a", 1), Rule(1, "b", 2) >>)

SetDFADesign ==
  DFADesign("set", {0}, {2},
    << Rule({0}, "a", {1}), Rule({0}, "b", {0}), Rule({1}, "b", {2}) >>)

ScalarStates == {1, 2}
SetStates == {{}, {1}, {1, 2}}

\* Number-valued and set-valued designs are kept apart: they never compare.
ScalarDFADesigns ==
  [form : {"scalar"}, startState : ScalarStates, acceptStates : SUBSET ScalarStates,
   rulebook : SeqsUpTo([state : ScalarStates, character : Symbols,
                        nextState : ScalarStates], MaxDFARules)]
  \cup {ScalarDFADesign, ReadStringTestDFADesign}

SetDFADesigns ==
  [form : {"set"}, startState : SetStates, acceptStates : SetStates,
   rulebook : SeqsUpTo([state : SetStates, character : Symbols,
                        nextState : SetStates], MaxDFARules)]
  \cup {SetDFADesign}

IsExampleDFADesign(design) ==
  IF design.form = "scalar"
    THEN design \in {ScalarDFADesign, ReadStringTestDFADesign}
    ELSE design = SetDFADesign

\* The states a caller can construct a machine of the design in.
DFAStatesOf(design) ==
  IF design.form = "scalar"
    THEN IF IsExampleDFADesign(design) THEN {0, 1, 2} ELSE ScalarStates
    ELSE IF IsExampleDFADesign(design) THEN {{}, {0}, {1}, {2}, {0, 1}} ELSE SetStates

DFAInputBound(design) ==
  IF IsExampleDFADesign(design) THEN MaxExampleLen ELSE MaxDFALen

-----------------------------------------------------------------------------
(* NFASimulation: the subset construction.  A macro-state is a set of NFA   *)
(* states; collections of macro-states and of rules are arrays.             *)

\* NFARulebook.alphabet: the symbols of the rules other than the free move,
\* each once, in the order of first appearance.
RECURSIVE NFARulebook_alphabet(_)
NFARulebook_alphabet(rulebook) ==
  IF rulebook = <<>>
    THEN <<>>
    ELSE LET front == NFARulebook_alphabet(SubSeq(rulebook, 1, Len(rulebook) - 1))
             character == rulebook[Len(rulebook)].character
         IN  IF character = EPSILON \/ character \in Range(front)
               THEN front
               ELSE Append(front, character)

\* NFADesign.toNFA(currentStates): a machine in the given states.
NFADesign_toNFAIn(design, currentStates) == NFA_new(currentStates)

\* Mutant: the raw states of the machine after the read, free moves not
\* followed.
NFASimulation_nextState_raw(design, state, character) ==
  NFA_readCharacter(design, NFADesign_toNFAIn(design, state), character).rawCurrentStates

NFASimulation_nextState(design, state, character) ==
  NFA_currentStates(design,
    NFA_readCharacter(design, NFADesign_toNFAIn(design, state), character))

\* Mutant: a rule for the free move as well as for the alphabet.
NFASimulation_rulesFor_withFreeMove(design, state) ==
  LET alphabet == Append(NFARulebook_alphabet(design.rulebook), EPSILON)
  IN  [i \in 1..Len(alphabet) |->
         Rule(state, alphabet[i], NFASimulation_nextState(design, state, alphabet[i]))]

NFASimulation_rulesFor(design, state) ==
  LET alphabet == NFARulebook_alphabet(design.rulebook)
  IN  [i \in 1..Len(alphabet) |->
         Rule(state, alphabet[i], NFASimulation_nextState(design, state, alphabet[i]))]

RECURSIVE FlatMapRulesFor(_, _)
FlatMapRulesFor(design, states) ==
  IF states = <<>>
    THEN <<>>
    ELSE NFASimulation_rulesFor(design, Head(states))
           \o FlatMapRulesFor(design, Tail(states))

\* The test both loops of discoverStatesAndRules use to look a macro-state
\* up in an array: some element e with e.difference(state).size === 0.
HasStateFor(states, state) ==
  \E i \in 1..Len(states) : states[i] \ state = {}

\* states.reduce((acc, state) => { if (!acc.some(...)) acc.push(state) }, moreStates)
RECURSIVE PushUnknown(_, _)
PushUnknown(acc, states) ==
  IF states = <<>>
    THEN acc
    ELSE PushUnknown(IF HasStateFor(acc, Head(states)) THEN acc
                     ELSE Append(acc, Head(states)),
                     Tail(states))

RECURSIVE NFASimulation_discoverStatesAndRules(_, _)
NFASimulation_discoverStatesAndRules(design, states) ==
  LET rules == FlatMapRulesFor(design, states)
      moreStates == [i \in 1..Len(rules) |-> FARule_follow(rules[i])]
  IN  IF \A i \in 1..Len(moreStates) : HasStateFor(states, moreStates[i])
        THEN [states |-> states, rules |-> rules]
        ELSE NFASimulation_discoverStatesAndRules(design, PushUnknown(moreStates, states))

NFASimulation_toDFADesign(design) ==
  LET startState == NFA_currentStates(design, NFADesign_toNFA(design))
      discovered == NFASimulation_discoverStatesAndRules(design, <<startState>>)
      acceptStates ==
        SelectSeq(discovered.states,
          LAMBDA state : NFA_accepting(design, NFADesign_toNFAIn(design, state)))
  IN  DFADesign("adapted", startState, acceptStates, discovered.rules)

-----------------------------------------------------------------------------
(* Placeholders for the parts of the state a specification does not use.    *)

NoDFADesign == [form |-> "none"]
NoDFA == [currentState |-> {}]
NoCall == [op |-> "none"]
NoFF == [pc |-> "idle"]
NoCalls == [probe |-> <<>>, count |-> 0, results |-> {}]
NoPair == [kind |-> "none"]

NoPattern == [type |-> "none"]
NoCompiled == [op |-> "none"]
NoAnswer == [op |-> "none"]

AutomataIdle ==
  /\ nfaDesign = [startState |-> 1, acceptStates |-> {}, rulebook |-> <<>>]
  /\ nfa = [rawCurrentStates |-> {}]
  /\ input = <<>>
  /\ dfaDesign = NoDFADesign
  /\ dfa = NoDFA
  /\ last = NoCall
  /\ ff = NoFF
  /\ calls = NoCalls
  /\ pair = NoPair

RegexIdle ==
  /\ pattern = NoPattern
  /\ statesGenerator = [state |-> 0, yielded |-> <<>>]
  /\ compiled = NoCompiled
  /\ answer = NoAnswer

NoDiscovery == [pc |-> "idle"]
NoDPDADesign == [startState |-> 0]
NoDPDA == [state |-> 0]
NoVerdict == [op |-> "none"]
NoMachine == [statement |-> [type |-> "none"]]
NoProgram == [statement |-> [type |-> "none"]]
NoReduction == [op |-> "none"]

DiscoveryIdle == discovery = NoDiscovery

PushdownIdle ==
  /\ dpdaDesign = NoDPDADesign
  /\ dpda = NoDPDA
  /\ consumed = <<>>
  /\ verdict = NoVerdict

SemanticsIdle ==
  /\ statementMachine = NoMachine
  /\ program = NoProgram
  /\ reduction = NoReduction

LaterIdle == RegexIdle /\ DiscoveryIdle /\ PushdownIdle /\ SemanticsIdle

-----------------------------------------------------------------------------
(* The NFA engine: a design is constructed, toNFA() spawns a machine and    *)
(* the caller drives it with readCharacter and readString.                  *)

InitNFA ==
  /\ nfaDesign \in NFADesigns
  /\ nfa = NFADesign_toNFA(nfaDesign)
  /\ input = <<>>
  /\ dfaDesign = NoDFADesign
  /\ dfa = NoDFA
  /\ last = NoCall
  /\ ff = NoFF
  /\ calls = NoCalls
  /\ pair = NoPair
  /\ LaterIdle

ReadCharacterNFA(character) ==
  /\ Len(input) < InputBound(nfaDesign)
  /\ nfa' = NFA_readCharacter(nfaDesign, nfa, character)
  /\ input' = Append(input, character)
  /\ UNCHANGED <<nfaDesign, dfaDesign, dfa, last, ff, calls, pair, later>>

ReadStringNFA(string) ==
  /\ Len(input) + Len(string) <= InputBound(nfaDesign)
  /\ nfa' = NFA_readString(nfaDesign, nfa, string)
  /\ input' = input \o string
  /\ UNCHANGED <<nfaDesign, dfaDesign, dfa, last, ff, calls, pair, later>>

NextNFA ==
  \/ \E character \in Symbols : ReadCharacterNFA(character)
  \/ \E string \in [1..2 -> Symbols] : ReadStringNFA(string)

SpecNFA == InitNFA /\ [][NextNFA]_vars

\* A path: rule steps that spell the string, free moves interleaved.  Within
\* one run of free moves no state needs to be visited twice.
RECURSIVE PathFrom(_, _, _, _)
PathFrom(design, state, string, freeVisited) ==
  \/ string = <<>> /\ state \in design.acceptStates
  \/ \E i \in 1..Len(design.rulebook) :
       LET rule == design.rulebook[i]
       IN  /\ rule.state = state
           /\ \/ /\ rule.character = EPSILON
                 /\ rule.nextState \notin freeVisited
                 /\ PathFrom(design, rule.nextState, string,
                             freeVisited \cup {rule.nextState})
              \/ /\ string # <<>>
                 /\ rule.character = Head(string)
                 /\ PathFrom(design, rule.nextState, Tail(string), {rule.nextState})

SomePathAccepts(design, string) ==
  PathFrom(design, design.startState, string, {design.startState})

OverlappingRules(design) ==
  \E i, j \in 1..Len(design.rulebook) :
     /\ design.rulebook[i].state = design.rulebook[j].state
     /\ design.rulebook[i].character = design.rulebook[j].character
     /\ design.rulebook[i].character # EPSILON
     /\ design.rulebook[i].nextState # design.rulebook[j].nextState

\* C6: NFADesign.accepts(s), and the machine that has read s, accept exactly
\* when some path of rule steps spelling s (free moves interleaved) ends in an
\* accept state; the six-state NFA of the tests accepts a^n exactly when n is
\* a multiple of 2 or of 3.
C6_AcceptsIffSomePath ==
  /\ NFADesign_accepts(nfaDesign, input) = SomePathAccepts(nfaDesign, input)
  /\ NFA_accepting(nfaDesign, nfa) = SomePathAccepts(nfaDesign, input)
  /\ (nfaDesign = SixStateNFADesign /\ Range(input) \subseteq {"a"})
       => (NFADesign_accepts(nfaDesign, input)
             = (Len(input) % 2 = 0 \/ Len(input) % 3 = 0))

\* The design with, for every (state, symbol), only the rule listed first.
FirstRulesOnly(design) ==
  [design EXCEPT !.rulebook =
     SelectSeq(design.rulebook,
       LAMBDA rule :
         \A i, j \in 1..Len(design.rulebook) :
            (/\ design.rulebook[j] = rule
             /\ i < j
             /\ design.rulebook[i].state = rule.state)
              => design.rulebook[i].character # rule.character)]

\* Witness of C6: overlapping rules for one (state, symbol), and an accepted
\* string that no path through the first-listed rules alone accepts.
C6_Witness ==
  /\ OverlappingRules(nfaDesign)
  /\ Len(input) >= 2
  /\ NFA_accepting(nfaDesign, nfa)
  /\ ~SomePathAccepts(FirstRulesOnly(nfaDesign), input)

EpsilonClosed(rulebook, states) ==
  \A i \in 1..Len(rulebook) :
     (rulebook[i].character = EPSILON /\ rulebook[i].state \in states)
       => rulebook[i].nextState \in states

\* C9: after any sequence of readCharacter/readString calls the value read
\* from currentStates is epsilon-closed, and it contains the raw field, the
\* only thing a read assigns.
C9_CurrentStatesClosed ==
  /\ EpsilonClosed(nfaDesign.rulebook, NFA_currentStates(nfaDesign, nfa))
  /\ nfa.rawCurrentStates \subseteq NFA_currentStates(nfaDesign, nfa)

\* Witness of C9: after a read the raw field is not closed, the value read is.
C9_Witness ==
  /\ Len(input) > 0
  /\ ~EpsilonClosed(nfaDesign.rulebook, nfa.rawCurrentStates)
  /\ EpsilonClosed(nfaDesign.rulebook, NFA_currentStates(nfaDesign, nfa))

NoRuleMatches(rulebook, states, character) ==
  \A i \in 1..Len(rulebook) :
     ~(rulebook[i].state \in states /\ rulebook[i].character = character)

\* C10: a read of a symbol that matches no rule from any current state
\* yields the empty state set; a read from the empty set yields the empty
\* set, and then the machine is not accepting.
C10_NoRuleYieldsEmpty ==
  [][/\ (/\ Len(input') = Len(input) + 1
         /\ NoRuleMatches(nfaDesign.rulebook, NFA_currentStates(nfaDesign, nfa),
                          input'[Len(input')]))
        => (nfa'.rawCurrentStates = {} /\ NFA_currentStates(nfaDesign, nfa') = {})
     /\ (NFA_currentStates(nfaDesign, nfa) = {})
        => (/\ NFA_currentStates(nfaDesign, nfa') = {}
            /\ ~NFA_accepting(nfaDesign, nfa'))
    ]_vars

\* Witness of C10: the machine held states, the last symbol matched no rule
\* from them, the set became empty and a further read has kept it empty.
C10_Witness ==
  /\ Len(input) >= 2
  /\ nfaDesign.acceptStates # {}
  /\ NFA_currentStates(nfaDesign, nfa) = {}
  /\ LET before == NFA_currentStates(nfaDesign,
                     NFA_readString(nfaDesign, NFADesign_toNFA(nfaDesign),
                                    SubSeq(input, 1, Len(input) - 2)))
     IN  /\ before # {}
         /\ NoRuleMatches(nfaDesign.rulebook, before, input[Len(input) - 1])

-----------------------------------------------------------------------------
(* followFreeMoves, one activation of the function per step: the call, the  *)
(* recursive calls, the return, and a second call on the value returned.    *)

StatesOf(design) ==
  {design.startState}
    \cup {design.rulebook[i].state : i \in 1..Len(design.rulebook)}
    \cup {design.rulebook[i].nextState : i \in 1..Len(design.rulebook)}

InitFFM ==
  /\ nfaDesign \in [startState : {1}, acceptStates : {{}},
                     rulebook : Rulebooks(MaxFreeRules)] \cup ExampleNFADesigns
  /\ nfa = NFADesign_toNFA(nfaDesign)
  /\ input = <<>>
  /\ dfaDesign = NoDFADesign
  /\ dfa = NoDFA
  /\ last = NoCall
  /\ ff = NoFF
  /\ calls = NoCalls
  /\ pair = NoPair
  /\ LaterIdle

CallFollowFreeMoves(states) ==
  /\ ff.pc = "idle"
  /\ ff' = [pc |-> "running", call |-> 1, first |-> states,
            argument |-> states, states |-> states]
  /\ UNCHANGED <<nfaDesign, nfa, input, dfaDesign, dfa, last, calls, pair, later>>

\* One activation: return states, or call again with states and moreStates.
StepFollowFreeMoves ==
  /\ ff.pc = "running"
  /\ LET moreStates == NFARulebook_nextStates(nfaDesign.rulebook, ff.states, EPSILON)
     IN  IF FreeMovesAddNothing(ff.states, moreStates)
           THEN ff' = [ff EXCEPT !.pc = "returned"]
           ELSE ff' = [ff EXCEPT !.states = ff.states \cup moreStates]
  /\ UNCHANGED <<nfaDesign, nfa, input, dfaDesign, dfa, last, calls, pair, later>>

CallFollowFreeMovesAgain ==
  /\ ff.pc = "returned"
  /\ ff.call = 1
  /\ ff' = [pc |-> "running", call |-> 2, first |-> ff.first,
            argument |-> ff.states, states |-> ff.states]
  /\ UNCHANGED <<nfaDesign, nfa, input, dfaDesign, dfa, last, calls, pair, later>>

NextFFM ==
  \/ \E states \in SUBSET (States \cup StatesOf(nfaDesign)) : CallFollowFreeMoves(states)
  \/ StepFollowFreeMoves
  \/ CallFollowFreeMovesAgain

\* followFreeMoves is one synchronous call: once entered it runs on.
SpecFFM == InitFFM /\ [][NextFFM]_vars /\ WF_vars(StepFollowFreeMoves)

\* C7: epsilon-closure is idempotent: followFreeMoves of the value
\* followFreeMoves returned has the same members as that value.
C7_FollowFreeMovesIdempotent ==
  /\ ff.pc # "idle" =>
       NFARulebook_followFreeMoves(nfaDesign.rulebook,
         NFARulebook_followFreeMoves(nfaDesign.rulebook, ff.first))
       = NFARulebook_followFreeMoves(nfaDesign.rulebook, ff.first)
  /\ (ff.pc = "returned" /\ ff.call = 1) =>
       ff.states = NFARulebook_followFreeMoves(nfaDesign.rulebook, ff.first)
  /\ (ff.pc = "returned" /\ ff.call = 2) => ff.states = ff.argument

\* Witness of C7: the second call has returned, on a closure that needed
\* two rounds of free moves.
C7_Witness ==
  /\ ff.pc = "returned"
  /\ ff.call = 2
  /\ ff.states # NFARulebook_followFreeMoves_once(nfaDesign.rulebook, ff.first)

EpsilonCycle(rulebook, states) ==
  \E i, j \in 1..Len(rulebook) :
     /\ rulebook[i].character = EPSILON /\ rulebook[j].character = EPSILON
     /\ rulebook[i].state \in states
     /\ rulebook[i].nextState = rulebook[j].state
     /\ rulebook[j].nextState = rulebook[i].state

\* C8: every call of followFreeMoves returns, epsilon self-loops and longer
\* cycles included, and it returns because a round added no state: the value
\* returned is closed under the epsilon rules.
C8_FollowFreeMovesTerminates ==
  /\ (ff.pc = "running") ~> (ff.pc = "returned")
  /\ [](ff.pc = "returned" => EpsilonClosed(nfaDesign.rulebook, ff.states))

\* Witness of C8: a call has returned on a rulebook whose epsilon rules form
\* a cycle (a self-loop or a two-rule cycle) through the states returned,
\* after at least one recursive call.
C8_Witness ==
  /\ ff.pc = "returned"
  /\ EpsilonCycle(nfaDesign.rulebook, ff.states)
  /\ ff.states # ff.argument

-----------------------------------------------------------------------------
(* The DFA engine driven by a caller: machines are constructed in a state   *)
(* (new DFA(state, ...), or toDFA() for the start state) and read           *)
(* characters and strings.  last records the call and how it ended.         *)

InitDFA ==
  /\ \/ dfaDesign \in ScalarDFADesigns
     \/ dfaDesign \in SetDFADesigns
  /\ dfa = DFA_new(dfaDesign.startState)
  /\ nfaDesign = NFADesign(1, {}, <<>>)
  /\ nfa = NFA_new({})
  /\ input = <<>>
  /\ last = NoCall
  /\ ff = NoFF
  /\ calls = NoCalls
  /\ pair = NoPair
  /\ LaterIdle

ConstructDFA(state) ==
  /\ dfa' = DFA_new(state)
  /\ last' = [op |-> "new", from |-> state, thrown |-> "none"]
  /\ UNCHANGED <<nfaDesign, nfa, input, dfaDesign, ff, calls, pair, later>>

ReadCharacterDFA(character) ==
  /\ LET read == DFA_readCharacter(dfaDesign, dfa, character)
     IN  /\ dfa' = read.value
         /\ last' = [op |-> "readCharacter", from |-> dfa.currentState,
                     character |-> character, thrown |-> read.thrown]
  /\ UNCHANGED <<nfaDesign, nfa, input, dfaDesign, ff, calls, pair, later>>

ReadStringDFA(string) ==
  /\ LET read == DFA_readString(dfaDesign, dfa, string)
     IN  /\ dfa' = read.value
         /\ last' = [op |-> "readString", from |-> dfa.currentState,
                     string |-> string, thrown |-> read.thrown]
  /\ UNCHANGED <<nfaDesign, nfa, input, dfaDesign, ff, calls, pair, later>>

NextDFA ==
  \/ \E state \in DFAStatesOf(dfaDesign) : ConstructDFA(state)
  \/ \E character \in Symbols : ReadCharacterDFA(character)
  \/ \E string \in [1..2 -> Symbols] : ReadStringDFA(string)

SpecDFA == InitDFA /\ [][NextDFA]_vars

\* The rulebook holds a rule for exactly this state and this symbol.
HoldsRuleFor(rulebook, state, character) ==
  \E i \in 1..Len(rulebook) :
     rulebook[i].state = state /\ rulebook[i].character = character

\* C5: for every current state, scalar or set-valued, the empty set
\* included, and every symbol for which the rulebook holds no rule for that
\* state, readCharacter raises an error: it neither returns silently nor
\* follows a rule written for another state.
C5_NoRuleRaises ==
  (/\ last.op = "readCharacter"
   /\ ~HoldsRuleFor(dfaDesign.rulebook, last.from, last.character))
    => last.thrown # "none"

-----------------------------------------------------------------------------
(* DFADesign.accepts called again and again: calls.probe is one input,      *)
(* calls.results what accepts has returned for it, calls.count how often it *)
(* was called with it (2 stands for "twice or more"); dfa is the machine    *)
(* the latest call left behind.                                             *)

Strings(n) == SeqsUpTo(Symbols, n)

InitAccepts ==
  /\ \/ dfaDesign \in ScalarDFADesigns
     \/ dfaDesign \in SetDFADesigns
  /\ dfa = DFA_new(dfaDesign.startState)
  /\ calls \in [probe : Strings(DFAInputBound(dfaDesign)), count : {0}, results : {{}}]
  /\ nfaDesign = NFADesign(1, {}, <<>>)
  /\ nfa = NFA_new({})
  /\ input = <<>>
  /\ last = NoCall
  /\ ff = NoFF
  /\ pair = NoPair
  /\ LaterIdle

AcceptsDFA(string) ==
  /\ dfa' = DFA_readString(dfaDesign, DFADesign_toDFA(dfaDesign), string).value
  /\ calls' = IF string = calls.probe
                THEN [calls EXCEPT
                        !.count = IF calls.count < 2 THEN calls.count + 1 ELSE 2,
                        !.results = calls.results
                                      \cup {DFADesign_accepts(dfaDesign, string)}]
                ELSE calls
  /\ UNCHANGED <<nfaDesign, nfa, input, dfaDesign, last, ff, pair, later>>

NextAccepts ==
  \E string \in Strings(DFAInputBound(dfaDesign)) : AcceptsDFA(string)

SpecAccepts == InitAccepts /\ [][NextAccepts]_vars

-----------------------------------------------------------------------------
(* The subset construction at work: toDFADesign() turns the NFA design into *)
(* a DFA design, toDFA() and toNFA() spawn a machine of each, and both read *)
(* the same symbols of the NFA's alphabet.  A read that throws ends the     *)
(* run, as it ends accepts().                                               *)

InitSim ==
  /\ nfaDesign \in NFADesigns
  /\ nfa = NFADesign_toNFA(nfaDesign)
  /\ input = <<>>
  /\ dfaDesign = NoDFADesign
  /\ dfa = NoDFA
  /\ last = NoCall
  /\ ff = NoFF
  /\ calls = NoCalls
  /\ pair = NoPair
  /\ LaterIdle

ToDFADesign ==
  /\ dfaDesign.form = "none"
  /\ dfaDesign' = NFASimulation_toDFADesign(nfaDesign)
  /\ last' = [op |-> "toDFADesign", thrown |-> "none"]
  /\ UNCHANGED <<nfaDesign, nfa, input, dfa, ff, calls, pair, later>>

ToDFASim ==
  /\ dfaDesign.form = "adapted"
  /\ dfa' = DFADesign_toDFA(dfaDesign)
  /\ nfa' = NFADesign_toNFA(nfaDesign)
  /\ input' = <<>>
  /\ last' = [op |-> "toDFA", thrown |-> "none"]
  /\ UNCHANGED <<nfaDesign, dfaDesign, ff, calls, pair, later>>

ReadCharacterSim(character) ==
  /\ last.op \in {"toDFA", "readCharacter"}
  /\ last.thrown = "none"
  /\ Len(input) < InputBound(nfaDesign)
  /\ LET read == DFA_readCharacter(dfaDesign, dfa, character)
     IN  /\ dfa' = read.value
         /\ last' = [op |-> "readCharacter", from |-> dfa.currentState,
                     character |-> character, thrown |-> read.thrown]
  /\ nfa' = NFA_readCharacter(nfaDesign, nfa, character)
  /\ input' = Append(input, character)
  /\ UNCHANGED <<nfaDesign, dfaDesign, ff, calls, pair, later>>

NextSim ==
  \/ ToDFADesign
  \/ ToDFASim
  \/ \E character \in Range(NFARulebook_alphabet(nfaDesign.rulebook)) :
       ReadCharacterSim(character)

SpecSim == InitSim /\ [][NextSim]_vars

MachinesRunning == last.op \in {"toDFA", "readCharacter"}

\* C1: for every string over the NFA's alphabet, the DFA design returned by
\* toDFADesign accepts the string exactly when the NFA design does.
C1_DFAAcceptsWhatNFAAccepts ==
  MachinesRunning =>
    /\ DFADesign_accepts(dfaDesign, input) = Returned(NFADesign_accepts(nfaDesign, input))
    /\ last.thrown = "none"
    /\ DFA_accepting(dfaDesign, dfa) = NFA_accepting(nfaDesign, nfa)

\* C2: once the DFA machine's current state is the empty macro-state, a
\* readCharacter with any symbol of the alphabet leaves it the empty
\* macro-state.
C2_EmptyMacroStateIsSink ==
  (last.op = "readCharacter" /\ last.from = {})
    => (last.thrown = "none" /\ dfa.currentState = {})

\* C3: the empty macro-state is never an accept state of the DFA design
\* toDFADesign returns, and a machine whose current state is the empty
\* macro-state does not report accepting().
C3_EmptyMacroStateNeverAccepts ==
  /\ dfaDesign.form = "adapted" =>
       \A i \in 1..Len(dfaDesign.acceptStates) : dfaDesign.acceptStates[i] # {}
  /\ (MachinesRunning /\ dfa.currentState = {}) => ~DFA_accepting(dfaDesign, dfa)

\* Witness of C3: a read has taken the machine of a DFA design that has
\* accept states to the empty macro-state.
C3_Witness ==
  /\ last.op = "readCharacter"
  /\ last.thrown = "none"
  /\ last.from # {}
  /\ dfa.currentState = {}
  /\ Len(dfaDesign.acceptStates) > 0
  /\ ~DFA_accepting(dfaDesign, dfa)

-----------------------------------------------------------------------------
(* Two machines of one design.  toDFA() / toNFA() run `new`, which puts a   *)
(* fresh machine object on the heap; a caller holds the reference.  Two     *)
(* callers drive their machines in any interleaving; a read that throws     *)
(* ends its caller's run.  pair.turns counts the changes of turn, up to 2.  *)

MaxPairRules == 1    \* rules in the enumerated rulebook of a design driven twice
MaxPairLen == 2      \* symbols each of the two machines reads

\* Mutant: the design keeps the machine it made first and hands it out again.
Allocate_reuse(heap, object) ==
  IF heap = <<>>
    THEN [heap |-> Append(heap, object), ref |-> Len(heap) + 1]
    ELSE [heap |-> heap, ref |-> 1]

\* new DFA(...) / new NFA(...): a fresh object, and the reference to it.
Allocate(heap, object) ==
  [heap |-> Append(heap, object), ref |-> Len(heap) + 1]

PairNFADesigns ==
  [startState : States, acceptStates : {{3}}, rulebook : Rulebooks(MaxPairRules)]
    \cup ExampleNFADesigns

InitPair ==
  /\ \/ /\ \/ dfaDesign \in ScalarDFADesigns
           \/ dfaDesign \in SetDFADesigns
        /\ nfaDesign = NFADesign(1, {}, <<>>)
        /\ pair = [kind |-> "dfa", heap |-> <<>>, machines |-> <<>>, inputs |-> <<>>,
                   thrown |-> <<>>, turn |-> 0, turns |-> 0]
     \/ /\ nfaDesign \in PairNFADesigns
        /\ dfaDesign = NoDFADesign
        /\ pair = [kind |-> "nfa", heap |-> <<>>, machines |-> <<>>, inputs |-> <<>>,
                   thrown |-> <<>>, turn |-> 0, turns |-> 0]
  /\ nfa = NFA_new({})
  /\ dfa = NoDFA
  /\ input = <<>>
  /\ last = NoCall
  /\ ff = NoFF
  /\ calls = NoCalls
  /\ LaterIdle

\* design.toDFA() / design.toNFA(), called by the next caller.
SpawnMachine ==
  /\ Len(pair.machines) < 2
  /\ LET machine == IF pair.kind = "dfa" THEN DFADesign_toDFA(dfaDesign)
                    ELSE NFADesign_toNFA(nfaDesign)
         made == Allocate(pair.heap, machine)
     IN  pair' = [pair EXCEPT !.heap = made.heap,
                              !.machines = Append(@, made.ref),
                              !.inputs = Append(@, <<>>),
                              !.thrown = Append(@, "none")]
  /\ UNCHANGED <<nfaDesign, nfa, input, dfaDesign, dfa, last, ff, calls, later>>

\* Caller i: machine.readCharacter(character) on the machine it holds.
ReadCharacterOf(i, character) ==
  /\ i \in 1..Len(pair.machines)
  /\ pair.thrown[i] = "none"
  /\ Len(pair.inputs[i]) < MaxPairLen
  /\ LET ref == pair.machines[i]
         read == IF pair.kind = "dfa"
                   THEN DFA_readCharacter(dfaDesign, pair.heap[ref], character)
                   ELSE Returned(NFA_readCharacter(nfaDesign, pair.heap[ref], character))
     IN  pair' = [pair EXCEPT !.heap[ref] = read.value,
                              !.inputs[i] = Append(@, character),
                              !.thrown[i] = read.thrown,
                              !.turn = i,
                              !.turns = IF pair.turn \notin {0, i} /\ @ < 2
                                          THEN @ + 1 ELSE @]
  /\ UNCHANGED <<nfaDesign, nfa, input, dfaDesign, dfa, last, ff, calls, later>>

NextPair ==
  \/ SpawnMachine
  \/ \E i \in 1..2, character \in Symbols : ReadCharacterOf(i, character)

SpecPair == InitPair /\ [][NextPair]_vars

\* What a machine of the design, driven alone, makes of a string.
DrivenAlone(string) ==
  IF pair.kind = "dfa"
    THEN DFA_readString(dfaDesign, DFADesign_toDFA(dfaDesign), string)
    ELSE Returned(NFA_readString(nfaDesign, NFADesign_toNFA(nfaDesign), string))

\* C11: machines spawned from one design are independent: in every
\* interleaving of the readCharacter calls on two machines of one DFADesign
\* or NFADesign, each machine is in the state (and its caller has seen the
\* error) it would reach driven alone with its own input, and no call changes
\* the design or its rulebook.
C11_MachinesIndependent ==
  /\ [](\A i \in 1..Len(pair.machines) :
          /\ pair.heap[pair.machines[i]] = DrivenAlone(pair.inputs[i]).value
          /\ pair.thrown[i] = DrivenAlone(pair.inputs[i]).thrown)
  /\ [][nfaDesign' = nfaDesign /\ dfaDesign' = dfaDesign]_vars

\* Witness of C11: the callers have taken turns, each machine has read its
\* own two symbols, and the machines are in different states, neither the
\* one they were spawned in.
C11_Witness ==
  /\ Len(pair.machines) = 2
  /\ pair.turns = 2
  /\ Len(pair.inputs[1]) = 2 /\ Len(pair.inputs[2]) = 2
  /\ pair.inputs[1] # pair.inputs[2]
  /\ pair.heap[pair.machines[1]] # pair.heap[pair.machines[2]]
  /\ pair.heap[pair.machines[1]] # DrivenAlone(<<>>).value
  /\ pair.heap[pair.machines[2]] # DrivenAlone(<<>>).value

-----------------------------------------------------------------------------
(* Regular expressions: the Pattern classes.  A string is the sequence of   *)
(* its characters.  The rules are FARules over number-valued states, the    *)
(* form the NFA engine reads.                                               *)

Empty == [type |-> "Empty"]
Literal(character) == [type |-> "Literal", character |-> character]
Concatenate(firstPattern, secondPattern) ==
  [type |-> "Concatenate", firstPattern |-> firstPattern, secondPattern |-> secondPattern]
Choose(firstPattern, secondPattern) ==
  [type |-> "Choose", firstPattern |-> firstPattern, secondPattern |-> secondPattern]
Repeat(innerPattern) == [type |-> "Repeat", pattern |-> innerPattern]

\* get precedence()
Pattern_precedence(p) ==
  CASE p.type = "Choose" -> 0
    [] p.type = "Concatenate" -> 1
    [] p.type = "Repeat" -> 2
    [] p.type \in {"Literal", "Empty"} -> 3

\* Mutant: the generator yields its state and does not advance.
Generator_next_stuck(generator) ==
  [value |-> generator.state,
   generator |-> [state |-> generator.state,
                  yielded |-> Append(generator.yielded, generator.state)]]

\* states.next(): `yield state++`.  yielded keeps every value handed out.
Generator_next(generator) ==
  [value |-> generator.state,
   generator |-> [state |-> generator.state + 1,
                  yielded |-> Append(generator.yielded, generator.state)]]

\* A compilation returns the design and leaves the generator advanced;
\* operands are the designs its locals held (firstNFADesign, secondNFADesign,
\* nfaDesign), kept for inspection.
Compiled(design, generator, operands) ==
  [design |-> design, generator |-> generator, operands |-> operands]

\* Mutant: a free move from the first of the states only.
FreeMovesTo_first(fromStates, target) ==
  IF fromStates = <<>> THEN <<>> ELSE <<Rule(fromStates[1], EPSILON, target)>>

\* array.map(state => new FARule(state, "ε", target))
FreeMovesTo(fromStates, target) ==
  [i \in 1..Len(fromStates) |-> Rule(fromStates[i], EPSILON, target)]

RECURSIVE Pattern_toNFADesign(_, _)

Empty_toNFADesign(p, generator) ==
  LET startState == Generator_next(generator)
      acceptState == startState.value
  IN  Compiled(NFADesign(startState.value, <<acceptState>>, <<>>), startState.generator,
               <<>>)

\* Mutant: the accept state is always the identifier 1.
Literal_toNFADesign_fixedAccept(p, generator) ==
  LET startState == Generator_next(generator)
      acceptState == Generator_next(startState.generator)
      rule == Rule(startState.value, p.character, 1)
  IN  Compiled(NFADesign(startState.value, <<1>>, <<rule>>),
               acceptState.generator, <<>>)

Literal_toNFADesign(p, generator) ==
  LET startState == Generator_next(generator)
      acceptState == Generator_next(startState.generator)
      rule == Rule(startState.value, p.character, acceptState.value)
  IN  Compiled(NFADesign(startState.value, <<acceptState.value>>, <<rule>>),
               acceptState.generator, <<>>)

\* Mutant: the second operand is compiled from the generator the first one
\* started from, so both operands are given the same identifiers.
Concatenate_toNFADesign_same(p, generator) ==
  LET first == Pattern_toNFADesign(p.firstPattern, generator)
      second == Pattern_toNFADesign(p.secondPattern, generator)
      firstNFADesign == first.design
      secondNFADesign == second.design
      rulebook == firstNFADesign.rulebook
                    \o FreeMovesTo(firstNFADesign.acceptStates, secondNFADesign.startState)
                    \o secondNFADesign.rulebook
  IN  Compiled(NFADesign(firstNFADesign.startState, secondNFADesign.acceptStates, rulebook),
               second.generator, <<firstNFADesign, secondNFADesign>>)

Concatenate_toNFADesign(p, generator) ==
  LET first == Pattern_toNFADesign(p.firstPattern, generator)
      second == Pattern_toNFADesign(p.secondPattern, first.generator)
      firstNFADesign == first.design
      secondNFADesign == second.design
      rulebook == firstNFADesign.rulebook
                    \o FreeMovesTo(firstNFADesign.acceptStates, secondNFADesign.startState)
                    \o secondNFADesign.rulebook
  IN  Compiled(NFADesign(firstNFADesign.startState, secondNFADesign.acceptStates, rulebook),
               second.generator, <<firstNFADesign, secondNFADesign>>)

\* Mutant: the fresh start state leads to the first operand only.
Choose_toNFADesign_firstOnly(p, generator) ==
  LET first == Pattern_toNFADesign(p.firstPattern, generator)
      second == Pattern_toNFADesign(p.secondPattern, first.generator)
      firstNFADesign == first.design
      secondNFADesign == second.design
      startState == Generator_next(second.generator)
      acceptStates == firstNFADesign.acceptStates \o secondNFADesign.acceptStates
      rulebook == firstNFADesign.rulebook
                    \o secondNFADesign.rulebook
                    \o << Rule(startState.value, EPSILON, firstNFADesign.startState) >>
  IN  Compiled(NFADesign(startState.value, acceptStates, rulebook), startState.generator,
               <<firstNFADesign, secondNFADesign>>)

Choose_toNFADesign(p, generator) ==
  LET first == Pattern_toNFADesign(p.firstPattern, generator)
      second == Pattern_toNFADesign(p.secondPattern, first.generator)
      firstNFADesign == first.design
      secondNFADesign == second.design
      startState == Generator_next(second.generator)
      acceptStates == firstNFADesign.acceptStates \o secondNFADesign.acceptStates
      rulebook == firstNFADesign.rulebook
                    \o secondNFADesign.rulebook
                    \o << Rule(startState.value, EPSILON, firstNFADesign.startState),
                          Rule(startState.value, EPSILON, secondNFADesign.startState) >>
  IN  Compiled(NFADesign(startState.value, acceptStates, rulebook), startState.generator,
               <<firstNFADesign, secondNFADesign>>)

\* Mutant: no free move from the accept states back to the start of the
\* repeated pattern: at most one repetition.
Repeat_toNFADesign_once(p, generator) ==
  LET inner == Pattern_toNFADesign(p.pattern, generator)
      nfaDesign_ == inner.design
      startState == Generator_next(inner.generator)
      acceptStates == Append(nfaDesign_.acceptStates, startState.value)
      rulebook == nfaDesign_.rulebook
                    \o << Rule(startState.value, EPSILON, nfaDesign_.startState) >>
  IN  Compiled(NFADesign(startState.value, acceptStates, rulebook), startState.generator,
               <<nfaDesign_>>)

Repeat_toNFADesign(p, generator) ==
  LET inner == Pattern_toNFADesign(p.pattern, generator)
      nfaDesign_ == inner.design
      startState == Generator_next(inner.generator)
      acceptStates == Append(nfaDesign_.acceptStates, startState.value)
      rulebook == nfaDesign_.rulebook
                    \o << Rule(startState.value, EPSILON, nfaDesign_.startState) >>
                    \o FreeMovesTo(acceptStates, nfaDesign_.startState)
  IN  Compiled(NFADesign(startState.value, acceptStates, rulebook), startState.generator,
               <<nfaDesign_>>)

\* pattern.toNFADesign(), dispatched on the class of the pattern.
Pattern_toNFADesign(p, generator) ==
  CASE p.type = "Empty" -> Empty_toNFADesign(p, generator)
    [] p.type = "Literal" -> Literal_toNFADesign(p, generator)
    [] p.type = "Concatenate" -> Concatenate_toNFADesign(p, generator)
    [] p.type = "Choose" -> Choose_toNFADesign(p, generator)
    [] p.type = "Repeat" -> Repeat_toNFADesign(p, generator)

\* The NFA engine reads acceptStates with includes() only: a compiled design
\* (acceptStates an array) as the engine sees it.
EngineDesign(design) ==
  NFADesign(design.startState, Range(design.acceptStates), design.rulebook)

\* matches(string): this.toNFADesign().accepts(string)
Pattern_matches(p, generator, string) ==
  LET made == Pattern_toNFADesign(p, generator)
  IN  [value |-> NFADesign_accepts(EngineDesign(made.design), string),
       design |-> made.design,
       operands |-> made.operands,
       generator |-> made.generator]

\* Printing.  `${x}` and join() concatenate the characters.
RECURSIVE Pattern_toString(_)

\* Mutant: parentheses also around a sub-pattern of equal precedence.
Pattern_bracket_equal(p, outerPrecedence) ==
  IF Pattern_precedence(p) <= outerPrecedence
    THEN <<"(">> \o Pattern_toString(p) \o <<")">>
    ELSE Pattern_toString(p)

Pattern_bracket(p, outerPrecedence) ==
  IF Pattern_precedence(p) < outerPrecedence
    THEN <<"(">> \o Pattern_toString(p) \o <<")">>
    ELSE Pattern_toString(p)

Concatenate_toString(p) ==
  Pattern_bracket(p.firstPattern, Pattern_precedence(p))
    \o Pattern_bracket(p.secondPattern, Pattern_precedence(p))

Choose_toString(p) ==
  Pattern_bracket(p.firstPattern, Pattern_precedence(p))
    \o <<"|">>
    \o Pattern_bracket(p.secondPattern, Pattern_precedence(p))

Repeat_toString(p) ==
  Pattern_bracket(p.pattern, Pattern_precedence(p)) \o <<"*">>

Pattern_toString(p) ==
  CASE p.type = "Empty" -> <<>>
    [] p.type = "Literal" -> <<p.character>>
    [] p.type = "Concatenate" -> Concatenate_toString(p)
    [] p.type = "Choose" -> Choose_toString(p)
    [] p.type = "Repeat" -> Repeat_toString(p)

-----------------------------------------------------------------------------
(* Patterns at work: a caller builds a pattern, compiles it, matches        *)
(* strings against it (every match compiles anew, from the one generator    *)
(* of the module), prints it, and goes on with one of its operands.         *)

MaxPatternSize == 4   \* nodes of an enumerated pattern tree
MaxRegexLen == 3      \* characters of a string matched against an enumerated pattern
MaxDemoLen == 5       \* characters of a string matched against the demo pattern
MaxYielded == 4       \* no compilation starts once the generator has yielded this much

RECURSIVE PatternsOfSize(_)
PatternsOfSize(n) ==
  IF n = 1
    THEN {Empty} \cup {Literal(character) : character \in Symbols}
    ELSE {Repeat(p) : p \in PatternsOfSize(n - 1)}
           \cup UNION {{Concatenate(p, q) : p \in PatternsOfSize(k),
                                            q \in PatternsOfSize(n - 1 - k)} :
                         k \in 1..(n - 2)}
           \cup UNION {{Choose(p, q) : p \in PatternsOfSize(k),
                                       q \in PatternsOfSize(n - 1 - k)} :
                         k \in 1..(n - 2)}

\* The pattern the source builds: (a(|b))*
DemoPattern == Repeat(Concatenate(Literal("a"), Choose(Empty, Literal("b"))))

Patterns == UNION {PatternsOfSize(n) : n \in 1..MaxPatternSize} \cup {DemoPattern}

RegexInputBound(p) == IF p = DemoPattern THEN MaxDemoLen ELSE MaxRegexLen

Operands(p) ==
  CASE p.type \in {"Concatenate", "Choose"} -> {p.firstPattern, p.secondPattern}
    [] p.type = "Repeat" -> {p.pattern}
    [] OTHER -> {}

InitRegex ==
  /\ pattern \in Patterns
  /\ statesGenerator = [state |-> 0, yielded |-> <<>>]
  /\ compiled = NoCompiled
  /\ answer = NoAnswer
  /\ AutomataIdle
  /\ DiscoveryIdle /\ PushdownIdle /\ SemanticsIdle

\* pattern.toNFADesign()
ToNFADesign ==
  /\ statesGenerator.state < MaxYielded
  /\ LET made == Pattern_toNFADesign(pattern, statesGenerator)
     IN  /\ compiled' = [op |-> "toNFADesign", from |-> statesGenerator.state,
                         design |-> made.design, operands |-> made.operands]
         /\ statesGenerator' = made.generator
  /\ UNCHANGED <<pattern, answer, beyondRegex>>

\* pattern.matches(string)
Matches(string) ==
  /\ statesGenerator.state < MaxYielded
  /\ LET matched == Pattern_matches(pattern, statesGenerator, string)
     IN  /\ compiled' = [op |-> "toNFADesign", from |-> statesGenerator.state,
                         design |-> matched.design, operands |-> matched.operands]
         /\ statesGenerator' = matched.generator
         /\ answer' = [op |-> "matches", string |-> string, value |-> matched.value]
  /\ UNCHANGED <<pattern, beyondRegex>>

\* pattern.toString()
PrintPattern ==
  /\ answer' = [op |-> "toString", value |-> Pattern_toString(pattern)]
  /\ UNCHANGED <<pattern, statesGenerator, compiled, beyondRegex>>

\* The caller turns to an operand of the pattern.
TakeOperand(p) ==
  /\ p \in Operands(pattern)
  /\ pattern' = p
  /\ compiled' = NoCompiled
  /\ answer' = NoAnswer
  /\ UNCHANGED <<statesGenerator, beyondRegex>>

NextRegex ==
  \/ ToNFADesign
  \/ \E string \in Strings(RegexInputBound(pattern)) : Matches(string)
  \/ PrintPattern
  \/ \E p \in Operands(pattern) : TakeOperand(p)

SpecRegex == InitRegex /\ [][NextRegex]_vars

RECURSIVE InLanguage(_, _)
InLanguage(p, string) ==
  CASE p.type = "Empty" -> string = <<>>
    [] p.type = "Literal" -> string = <<p.character>>
    [] p.type = "Concatenate" ->
         \E k \in 0..Len(string) :
            /\ InLanguage(p.firstPattern, SubSeq(string, 1, k))
            /\ InLanguage(p.secondPattern, SubSeq(string, k + 1, Len(string)))
    [] p.type = "Choose" ->
         InLanguage(p.firstPattern, string) \/ InLanguage(p.secondPattern, string)
    [] p.type = "Repeat" ->
         \/ string = <<>>
         \/ \E k \in 1..Len(string) :
              /\ InLanguage(p.pattern, SubSeq(string, 1, k))
              /\ InLanguage(p, SubSeq(string, k + 1, Len(string)))

DesignStates(design) ==
  {design.startState}
    \cup Range(design.acceptStates)
    \cup {design.rulebook[i].state : i \in 1..Len(design.rulebook)}
    \cup {design.rulebook[i].nextState : i \in 1..Len(design.rulebook)}

\* C14: in every NFA design toNFADesign produces, the states of the two
\* compiled operands of a Concatenate or Choose are disjoint, the freshly
\* allocated start state of a Choose or Repeat belongs to no operand, and
\* over any sequence of compilations the shared generator never hands out
\* the same identifier twice.
C14_CompiledStatesDisjoint ==
  /\ (compiled.op = "toNFADesign" /\ pattern.type \in {"Concatenate", "Choose"}) =>
       DesignStates(compiled.operands[1]) \cap DesignStates(compiled.operands[2]) = {}
  /\ (compiled.op = "toNFADesign" /\ pattern.type \in {"Choose", "Repeat"}) =>
       \A i \in 1..Len(compiled.operands) :
          compiled.design.startState \notin DesignStates(compiled.operands[i])
  /\ \A i, j \in 1..Len(statesGenerator.yielded) :
       i # j => statesGenerator.yielded[i] # statesGenerator.yielded[j]

\* Witness of C14: a Choose compiled after an earlier compilation had drawn
\* identifiers from the generator.
C14_Witness ==
  /\ compiled.op = "toNFADesign"
  /\ pattern.type = "Choose"
  /\ compiled.from > 0
  /\ Cardinality(DesignStates(compiled.design)) >= 3

\* The precedences the claim states.
ClaimedPrecedence(p) ==
  CASE p.type = "Choose" -> 0
    [] p.type = "Concatenate" -> 1
    [] p.type = "Repeat" -> 2
    [] OTHER -> 3

\* A sub-pattern as it shows in its parent's string.
Shown(p, parent) ==
  IF ClaimedPrecedence(p) < ClaimedPrecedence(parent)
    THEN <<"(">> \o Pattern_toString(p) \o <<")">>
    ELSE Pattern_toString(p)

-----------------------------------------------------------------------------
(* FARule.appliesTo and DFA.accepting, as the reads and the machines of     *)
(* SpecDFA exercise them: ruleFor hands every rule of the rulebook the      *)
(* machine's state and the character read.                                  *)

\* C15: FARule.appliesTo(state, symbol) is true exactly when the symbol
\* equals the rule's symbol and the state equals the rule's state; for
\* set-valued states, equal means having exactly the same members.
C15_AppliesToIsEquality ==
  last.op = "readCharacter" =>
    \A i \in 1..Len(dfaDesign.rulebook) :
       DFARule_appliesTo(dfaDesign.form, dfaDesign.rulebook[i], last.from, last.character)
         = (/\ last.character = dfaDesign.rulebook[i].character
            /\ last.from = dfaDesign.rulebook[i].state)

\* The current state is one of the accept states: a member of the array of
\* accept states (number-valued form), the state {n} of a member n of the
\* set of accept states (set-valued form).
IsAcceptState(design, state) ==
  IF design.form = "scalar"
    THEN state \in design.acceptStates
    ELSE \E n \in design.acceptStates : state = {n}

\* C16: DFA.accepting() is true exactly when the machine's current state is
\* one of the accept states, whatever state the machine holds, the empty
\* set and sets of several members included.
C16_AcceptingIffAcceptState ==
  dfaDesign.form \in {"scalar", "set"} =>
    DFA_accepting(dfaDesign, dfa) = IsAcceptState(dfaDesign, dfa.currentState)

-----------------------------------------------------------------------------
(* discoverStatesAndRules, one activation of the function per step.  The    *)
(* source holds it twice: over arrays of macro-states ("array", the one     *)
(* toDFADesign calls) and over a Set of macro-states compared through       *)
(* normalizeSet ("set").  A collection of macro-states is a sequence, in    *)
(* insertion order; a Set of Set objects can hold equal sets twice.         *)

\* normalizeSet: every member as JSON.stringify of its sorted members, in a
\* Set of strings.  Two members give one string exactly when they have the
\* same members, so the string is represented by the set of members.
NormalizeSet(states) == Range(states)

\* The members of a sequence in the order of their first occurrences.
Distinct(states) ==
  LET first == {i \in 1..Len(states) : \A j \in 1..(i - 1) : states[j] # states[i]}
  IN  [k \in 1..Cardinality(first) |->
         states[CHOOSE i \in first : Cardinality({j \in first : j <= i}) = k]]

\* Mutant: the merge keeps only what the round discovered.
MergeSetsOfSets_forget(setA, setB) == Distinct(setB)

\* mergeSetsOfSets: the union of the normalized sets, parsed back.
MergeSetsOfSets(setA, setB) == Distinct(setA \o setB)

\* One activation: what it returns, or the argument of the call it makes.
DiscoverRound(variant, design, states) ==
  LET rules == FlatMapRulesFor(design, states)
      moreStates == [i \in 1..Len(rules) |-> FARule_follow(rules[i])]
  IN  IF variant = "array"
        THEN IF \A i \in 1..Len(moreStates) : HasStateFor(states, moreStates[i])
               THEN [returns |-> TRUE, states |-> states, rules |-> rules]
               ELSE [returns |-> FALSE, states |-> PushUnknown(moreStates, states)]
        ELSE IF NormalizeSet(moreStates) \subseteq NormalizeSet(states)
               THEN [returns |-> TRUE, states |-> states, rules |-> rules]
               ELSE [returns |-> FALSE, states |-> MergeSetsOfSets(states, moreStates)]

DiscoverNFADesigns ==
  [startState : States, acceptStates : {{3}}, rulebook : Rulebooks(MaxRules)]
    \cup ExampleNFADesigns

InitDiscover ==
  /\ nfaDesign \in DiscoverNFADesigns
  /\ discovery = NoDiscovery
  /\ nfa = NFADesign_toNFA(nfaDesign)
  /\ input = <<>>
  /\ dfaDesign = NoDFADesign
  /\ dfa = NoDFA
  /\ last = NoCall
  /\ ff = NoFF
  /\ calls = NoCalls
  /\ pair = NoPair
  /\ RegexIdle /\ PushdownIdle /\ SemanticsIdle

\* discoverStatesAndRules([startState]), as toDFADesign and the tests call it.
CallDiscover(variant) ==
  /\ discovery.pc = "idle"
  /\ discovery' = [pc |-> "running", variant |-> variant, rounds |-> 1,
                   states |-> <<NFA_currentStates(nfaDesign, NFADesign_toNFA(nfaDesign))>>,
                   rules |-> <<>>]
  /\ UNCHANGED <<nfaDesign, beyondDiscovery>>

StepDiscover ==
  /\ discovery.pc = "running"
  /\ LET round == DiscoverRound(discovery.variant, nfaDesign, discovery.states)
     IN  IF round.returns
           THEN discovery' = [discovery EXCEPT !.pc = "returned", !.rules = round.rules]
           ELSE discovery' = [discovery EXCEPT !.states = round.states,
                                               !.rounds = @ + 1]
  /\ UNCHANGED <<nfaDesign, beyondDiscovery>>

\* nextState(state, character) on a fresh simulation; the method reads and
\* writes no field, so one call stands for any.  The call is kept as the
\* rule rulesFor would make of it.
NextStateDiscover(state, character) ==
  /\ discovery.pc = "idle"
  /\ discovery' = [pc |-> "nextState", variant |-> "none", rounds |-> 0,
                   states |-> <<state>>,
                   rules |-> <<Rule(state, character,
                                    NFASimulation_nextState(nfaDesign, state, character))>>]
  /\ UNCHANGED <<nfaDesign, beyondDiscovery>>

NextDiscover ==
  \/ \E state \in SUBSET States, character \in Symbols :
       NextStateDiscover(state, character)
  \/ \E variant \in {"array", "set"} : CallDiscover(variant)
  \/ StepDiscover

SpecDiscover == InitDiscover /\ [][NextDiscover]_vars

RECURSIVE TwoToThe(_)
TwoToThe(n) == IF n = 0 THEN 1 ELSE 2 * TwoToThe(n - 1)

\* C17: discoverStatesAndRules terminates for every NFA design, after at
\* most as many rounds as the NFA's states have subsets: an activation
\* either returns or makes the one call of the next round, and no call is
\* ever in a round beyond the number of subsets.
C17_DiscoveryTerminates ==
  /\ [](discovery.pc # "idle" =>
          discovery.rounds <= TwoToThe(Cardinality(StatesOf(nfaDesign))))
  /\ [][discovery.pc = "running" =>
          \/ discovery'.pc = "returned" /\ discovery'.rounds = discovery.rounds
          \/ discovery'.pc = "running" /\ discovery'.rounds = discovery.rounds + 1]_vars

\* Witness of C17: a discovery has returned in its third round or later,
\* with several macro-states.
C17_Witness ==
  /\ discovery.pc = "returned"
  /\ discovery.rounds >= 3
  /\ Len(discovery.states) >= 3

-----------------------------------------------------------------------------
(* Deterministic pushdown automata.  A Stack is the sequence of its         *)
(* contents, the top first; a PDAConfiguration is a state and a stack.      *)

MaxBracketLen == 6
MaxFedLen == 2

UNDEFINED == "undefined"
STUCK_STATE == -1

Stack_push(stack, item) == <<item>> \o stack
\* Mutant: pop removes the bottom of the stack.
Stack_pop_last(stack) ==
  IF stack = <<>> THEN <<>> ELSE SubSeq(stack, 1, Len(stack) - 1)

Stack_pop(stack) == IF stack = <<>> THEN <<>> ELSE Tail(stack)
Stack_top(stack) == IF stack = <<>> THEN UNDEFINED ELSE Head(stack)

PDAConfiguration(state, stack) == [state |-> state, stack |-> stack]
\* Mutant: the stuck configuration has an empty stack.
PDAConfiguration_stuck_emptied(configuration) ==
  PDAConfiguration(STUCK_STATE, <<>>)

PDAConfiguration_stuck(configuration) ==
  PDAConfiguration(STUCK_STATE, configuration.stack)
PDAConfiguration_isStuck(configuration) == configuration.state = STUCK_STATE

PDARule(state, character, nextState, popCharacter, pushCharacters) ==
  [state |-> state, character |-> character, nextState |-> nextState,
   popCharacter |-> popCharacter, pushCharacters |-> pushCharacters]

PDARule_appliesTo(rule, configuration, character) ==
  /\ configuration.state = rule.state
  /\ character = rule.character
  /\ Stack_top(configuration.stack) = rule.popCharacter

Reverse(characters) ==
  [i \in 1..Len(characters) |-> characters[Len(characters) + 1 - i]]

\* characters.reduce((stack, character) => stack.push(character), stack)
RECURSIVE PushEach(_, _)
PushEach(stack, characters) ==
  IF characters = <<>>
    THEN stack
    ELSE PushEach(Stack_push(stack, Head(characters)), Tail(characters))

\* Mutant: the push characters are pushed in the order they are written.
PDARule_nextStack_unreversed(rule, configuration) ==
  PushEach(Stack_pop(configuration.stack), rule.pushCharacters)

PDARule_nextStack(rule, configuration) ==
  PushEach(Stack_pop(configuration.stack), Reverse(rule.pushCharacters))

PDARule_follow(rule, configuration) ==
  PDAConfiguration(rule.nextState, PDARule_nextStack(rule, configuration))

\* rules.find(...): the position of the first rule that applies, 0 for undefined.
DPDARulebook_ruleFor(rulebook, configuration, character) ==
  LET applying == {i \in 1..Len(rulebook) :
                     PDARule_appliesTo(rulebook[i], configuration, character)}
  IN  IF applying = {} THEN 0
      ELSE CHOOSE i \in applying : \A j \in applying : i <= j

DPDARulebook_nextConfiguration(rulebook, configuration, character) ==
  LET rule == DPDARulebook_ruleFor(rulebook, configuration, character)
  IN  IF rule = 0
        THEN PDAConfiguration_stuck(configuration)
        ELSE PDARule_follow(rulebook[rule], configuration)

DPDARulebook_appliesTo(rulebook, configuration, character) ==
  DPDARulebook_ruleFor(rulebook, configuration, character) # 0

FREE_MOVE == "ε"

RECURSIVE DPDARulebook_followFreeMoves(_, _)
DPDARulebook_followFreeMoves(rulebook, configuration) ==
  IF DPDARulebook_appliesTo(rulebook, configuration, FREE_MOVE)
    THEN DPDARulebook_followFreeMoves(rulebook,
           DPDARulebook_nextConfiguration(rulebook, configuration, FREE_MOVE))
    ELSE configuration

\* A DPDA machine is its raw field; accept states and rulebook are its design's.
DPDA_new(configuration) == [rawConfiguration |-> configuration]

\* get currentConfiguration
DPDA_currentConfiguration(design, machine) ==
  DPDARulebook_followFreeMoves(design.rulebook, machine.rawConfiguration)

DPDA_accepting(design, machine) ==
  DPDA_currentConfiguration(design, machine).state \in Range(design.acceptStates)

DPDA_nextConfiguration(design, machine, character) ==
  LET current == DPDA_currentConfiguration(design, machine)
  IN  IF DPDARulebook_appliesTo(design.rulebook, current, character)
        THEN DPDARulebook_nextConfiguration(design.rulebook, current, character)
        ELSE PDAConfiguration_stuck(current)

DPDA_readCharacter(design, machine, character) ==
  DPDA_new(DPDA_nextConfiguration(design, machine, character))

RECURSIVE DPDA_readString(_, _, _)
DPDA_readString(design, machine, characters) ==
  IF characters = <<>>
    THEN machine
    ELSE LET read == DPDA_readCharacter(design, machine, Head(characters))
         IN  IF PDAConfiguration_isStuck(DPDA_currentConfiguration(design, read))
               THEN read
               ELSE DPDA_readString(design, read, Tail(characters))

DPDADesign(startState, bottomCharacter, acceptStates, rulebook) ==
  [startState |-> startState, bottomCharacter |-> bottomCharacter,
   acceptStates |-> acceptStates, rulebook |-> rulebook]

DPDADesign_toDPDA(design) ==
  DPDA_new(PDAConfiguration(design.startState, <<design.bottomCharacter>>))

DPDADesign_accepts(design, characters) ==
  DPDA_accepting(design, DPDA_readString(design, DPDADesign_toDPDA(design), characters))

\* The rulebook and the design of the tests: balanced brackets.
BracketRulebook ==
  << PDARule(1, "(", 2, "$", <<"b", "$">>),
     PDARule(2, "(", 2, "b", <<"b", "b">>),
     PDARule(2, ")", 2, "b", <<>>),
     PDARule(2, FREE_MOVE, 1, "$", <<"$">>) >>

BracketDPDADesign == DPDADesign(1, "$", <<1>>, BracketRulebook)

Brackets == {"(", ")"}

RECURSIVE StringsUpTo(_, _)
StringsUpTo(characters, n) ==
  IF n = 0 THEN {<<>>}
  ELSE LET shorter == StringsUpTo(characters, n - 1)
       IN  shorter \cup {Append(string, character) :
                           string \in shorter, character \in characters}

-----------------------------------------------------------------------------
(* A design, one machine of it fed character by character, and calls of     *)
(* the design's accepts.                                                    *)

InitDPDA ==
  /\ dpdaDesign = BracketDPDADesign
  /\ dpda = DPDADesign_toDPDA(dpdaDesign)
  /\ consumed = <<>>
  /\ verdict = NoVerdict
  /\ AutomataIdle /\ RegexIdle /\ DiscoveryIdle /\ SemanticsIdle

ReadCharacterDPDA(character) ==
  /\ Len(consumed) < MaxFedLen
  /\ dpda' = DPDA_readCharacter(dpdaDesign, dpda, character)
  /\ consumed' = Append(consumed, character)
  /\ UNCHANGED <<dpdaDesign, verdict, beyondPushdown>>

AcceptsDPDA(characters) ==
  /\ verdict' = [op |-> "accepts", characters |-> characters,
                 value |-> DPDADesign_accepts(dpdaDesign, characters)]
  /\ UNCHANGED <<dpdaDesign, dpda, consumed, beyondPushdown>>

NextDPDA ==
  \/ \E character \in Brackets : ReadCharacterDPDA(character)
  \/ \E characters \in StringsUpTo(Brackets, MaxBracketLen) : AcceptsDPDA(characters)

SpecDPDA == InitDPDA /\ [][NextDPDA]_vars

\* How many brackets a string leaves open; -1 once one closes what is not open.
RECURSIVE OpenBrackets(_)
OpenBrackets(characters) ==
  IF characters = <<>> THEN 0
  ELSE LET before == OpenBrackets(SubSeq(characters, 1, Len(characters) - 1))
       IN  IF before < 0 THEN -1
           ELSE IF characters[Len(characters)] = "(" THEN before + 1
           ELSE before - 1

Balanced(characters) == OpenBrackets(characters) = 0

\* C18: with the bracket rulebook (start state 1, bottom character $, accept
\* state 1), accepts(s) is true exactly when s is a balanced string of
\* brackets.
C18_AcceptsIffBalanced ==
  (dpdaDesign = BracketDPDADesign /\ verdict.op = "accepts") =>
     verdict.value = Balanced(verdict.characters)

\* Witness of C18: accepts has answered true for a nested string of six.
C18_Witness ==
  /\ dpdaDesign = BracketDPDADesign
  /\ verdict.op = "accepts"
  /\ verdict.characters = <<"(", "(", ")", "(", ")", ")">>
  /\ verdict.value

-----------------------------------------------------------------------------
(* Small-step semantics.  An expression or a statement is a record tagged   *)
(* with its class; an environment is a function from names to expressions.  *)

MaxWhileN == 5
MaxX0 == 6

SNumber(value) == [type |-> "SNumber", value |-> value]
SBoolean(value) == [type |-> "SBoolean", value |-> value]
SAdd(left, right) == [type |-> "SAdd", left |-> left, right |-> right]
SMultiply(left, right) == [type |-> "SMultiply", left |-> left, right |-> right]
SLessThan(left, right) == [type |-> "SLessThan", left |-> left, right |-> right]
SVariable(name) == [type |-> "SVariable", name |-> name]
SDoNothing == [type |-> "SDoNothing"]
SAssign(name, expression) ==
  [type |-> "SAssign", name |-> name, expression |-> expression]
SIf(condition, consequence, alternative) ==
  [type |-> "SIf", condition |-> condition, consequence |-> consequence,
   alternative |-> alternative]
SSequence(first, second) == [type |-> "SSequence", first |-> first, second |-> second]
SWhile(condition, body) == [type |-> "SWhile", condition |-> condition, body |-> body]

\* What environment[name] gives for a name the environment does not hold.
SUndefined == [type |-> "undefined"]

\* get reducible, of every class
Reducible(node) == node.type \notin {"SNumber", "SBoolean", "SDoNothing"}

RECURSIVE SExpression_reduce(_, _)

\* Mutant: the right operand is reduced before the left one.
SAdd_reduce_rightFirst(expression, environment) ==
  IF Reducible(expression.right)
    THEN SAdd(expression.left, SExpression_reduce(expression.right, environment))
  ELSE IF Reducible(expression.left)
    THEN SAdd(SExpression_reduce(expression.left, environment), expression.right)
  ELSE SNumber(expression.left.value + expression.right.value)

SAdd_reduce(expression, environment) ==
  IF Reducible(expression.left)
    THEN SAdd(SExpression_reduce(expression.left, environment), expression.right)
  ELSE IF Reducible(expression.right)
    THEN SAdd(expression.left, SExpression_reduce(expression.right, environment))
  ELSE SNumber(expression.left.value + expression.right.value)

SMultiply_reduce(expression, environment) ==
  IF Reducible(expression.left)
    THEN SMultiply(SExpression_reduce(expression.left, environment), expression.right)
  ELSE IF Reducible(expression.right)
    THEN SMultiply(expression.left, SExpression_reduce(expression.right, environment))
  ELSE SNumber(expression.left.value * expression.right.value)

SLessThan_reduce(expression, environment) ==
  IF Reducible(expression.left)
    THEN SLessThan(SExpression_reduce(expression.left, environment), expression.right)
  ELSE IF Reducible(expression.right)
    THEN SLessThan(expression.left, SExpression_reduce(expression.right, environment))
  ELSE SBoolean(expression.left.value < expression.right.value)

SVariable_reduce(expression, environment) ==
  IF expression.name \in DOMAIN environment
    THEN environment[expression.name]
    ELSE SUndefined

\* (expression as SReducible).reduce(environment): the reduce of its class.
SExpression_reduce(expression, environment) ==
  CASE expression.type = "SAdd" -> SAdd_reduce(expression, environment)
    [] expression.type = "SMultiply" -> SMultiply_reduce(expression, environment)
    [] expression.type = "SLessThan" -> SLessThan_reduce(expression, environment)
    [] expression.type = "SVariable" -> SVariable_reduce(expression, environment)

\* A statement's reduce returns the pair [statement, environment].
Reduced(statement, environment) ==
  [statement |-> statement, environment |-> environment]

RECURSIVE SStatement_reduce(_, _)

\* Mutant: the new environment binds the assigned name alone.
SAssign_reduce_bindingOnly(statement, environment) ==
  IF Reducible(statement.expression)
    THEN Reduced(SAssign(statement.name,
                         SExpression_reduce(statement.expression, environment)),
                 environment)
    ELSE Reduced(SDoNothing, [name \in {statement.name} |-> statement.expression])

SAssign_reduce(statement, environment) ==
  IF Reducible(statement.expression)
    THEN Reduced(SAssign(statement.name,
                         SExpression_reduce(statement.expression, environment)),
                 environment)
    ELSE Reduced(SDoNothing,
                 [name \in DOMAIN environment \cup {statement.name} |->
                    IF name = statement.name THEN statement.expression
                    ELSE environment[name]])

SIf_reduce(statement, environment) ==
  IF Reducible(statement.condition)
    THEN Reduced(SIf(SExpression_reduce(statement.condition, environment),
                     statement.consequence, statement.alternative),
                 environment)
    ELSE IF statement.condition.value = TRUE
           THEN Reduced(statement.consequence, environment)
           ELSE Reduced(statement.alternative, environment)

\* Mutant: the environment the first statement's step returned is dropped.
SSequence_reduce_staleEnvironment(statement, environment) ==
  IF statement.first.type = "SDoNothing"
    THEN Reduced(statement.second, environment)
    ELSE LET first == SStatement_reduce(statement.first, environment)
         IN  Reduced(SSequence(first.statement, statement.second), environment)

SSequence_reduce(statement, environment) ==
  IF statement.first.type = "SDoNothing"
    THEN Reduced(statement.second, environment)
    ELSE LET first == SStatement_reduce(statement.first, environment)
         IN  Reduced(SSequence(first.statement, statement.second), first.environment)

\* Mutant: the loop unfolds without itself.
SWhile_reduce_once(statement, environment) ==
  Reduced(SIf(statement.condition, statement.body, SDoNothing), environment)

SWhile_reduce(statement, environment) ==
  Reduced(SIf(statement.condition, SSequence(statement.body, statement), SDoNothing),
          environment)

SStatement_reduce(statement, environment) ==
  CASE statement.type = "SAssign" -> SAssign_reduce(statement, environment)
    [] statement.type = "SIf" -> SIf_reduce(statement, environment)
    [] statement.type = "SSequence" -> SSequence_reduce(statement, environment)
    [] statement.type = "SWhile" -> SWhile_reduce(statement, environment)

SStatementMachine(statement, environment) ==
  [statement |-> statement, environment |-> environment]

\* Mutant: step() stores the reduced statement and drops the environment.
SStatementMachine_step_keepsEnvironment(machine) ==
  LET reduced == SStatement_reduce(machine.statement, machine.environment)
  IN  SStatementMachine(reduced.statement, machine.environment)

SStatementMachine_step(machine) ==
  LET reduced == SStatement_reduce(machine.statement, machine.environment)
  IN  SStatementMachine(reduced.statement, reduced.environment)

-----------------------------------------------------------------------------
(* run() of a statement machine made of while (x < N) { x = x + 1 } and an  *)
(* environment that holds x: one iteration of its loop per step.            *)

CountingLoop(n) ==
  SWhile(SLessThan(SVariable("x"), SNumber(n)),
         SAssign("x", SAdd(SVariable("x"), SNumber(1))))

InitSmallStep ==
  /\ \E n \in 0..MaxWhileN, x0 \in (0 - MaxX0)..MaxX0 :
       program = SStatementMachine(CountingLoop(n), [name \in {"x"} |-> SNumber(x0)])
  /\ statementMachine = program
  /\ reduction = NoReduction
  /\ AutomataIdle /\ RegexIdle /\ DiscoveryIdle /\ PushdownIdle

\* while (this.statement.reducible) { this.step() }
RunStep ==
  /\ Reducible(statementMachine.statement)
  /\ statementMachine' = SStatementMachine_step(statementMachine)
  /\ UNCHANGED <<program, reduction, beyondSemantics>>

NextSmallStep == RunStep

\* run() is one synchronous loop: while its test holds it makes its next step.
SpecSmallStep == InitSmallStep /\ [][NextSmallStep]_vars /\ WF_vars(RunStep)

Halted == ~Reducible(statementMachine.statement)

LoopBound == program.statement.condition.right.value
StartValue == program.environment["x"].value

\* C19: run() halts on while (x < N) { x = x + 1 } from any x = x0; at halt
\* the statement is do-nothing and x is the larger of x0 and N (5 from
\* x0 = 0 and N = 5).
C19_WhileRunHalts ==
  /\ <>Halted
  /\ [](Halted =>
          /\ statementMachine.statement = SDoNothing
          /\ statementMachine.environment["x"] =
               SNumber(IF StartValue > LoopBound THEN StartValue ELSE LoopBound)
          /\ (StartValue = 0 /\ LoopBound = 5 =>
                statementMachine.environment["x"] = SNumber(5)))

\* Witness of C19: the machine of the test (x0 = 0, N = 5) has halted.
C19_Witness ==
  /\ Halted
  /\ StartValue = 0
  /\ LoopBound = 5
  /\ statementMachine.environment["x"].value = 5

-----------------------------------------------------------------------------
(* Claims on followFreeMoves as the epsilon-closure.                        *)

\* The states reachable from a member of states by zero or more epsilon
\* rules: the members of every epsilon-closed set that contains states.
EpsilonReachable(design, states) ==
  LET universe == States \cup StatesOf(design) \cup states
  IN  {state \in universe :
         \A closed \in SUBSET universe :
            (states \subseteq closed /\ EpsilonClosed(design.rulebook, closed))
              => state \in closed}

\* C21: followFreeMoves(S) returns exactly the states reachable from some
\* member of S by zero or more epsilon rules: it contains S, is closed under
\* the epsilon rules, and holds no state that is not so reachable.
C21_FollowFreeMovesIsClosure ==
  ff.pc = "returned" =>
    /\ ff.argument \subseteq ff.states
    /\ EpsilonClosed(nfaDesign.rulebook, ff.states)
    /\ ff.states = EpsilonReachable(nfaDesign, ff.argument)

\* Witness of C21: a call has returned more than it was handed, and left out
\* the target of a rule that leaves one of the states returned on a symbol.
C21_Witness ==
  /\ ff.pc = "returned"
  /\ ff.states # ff.argument
  /\ \E i \in 1..Len(nfaDesign.rulebook) :
        /\ nfaDesign.rulebook[i].character # EPSILON
        /\ nfaDesign.rulebook[i].state \in ff.states
        /\ nfaDesign.rulebook[i].nextState \notin ff.states

-----------------------------------------------------------------------------
(* Claims on what discoverStatesAndRules returns.                           *)

Discovered == discovery.pc = "returned"

StartMacroState(design) == NFA_currentStates(design, NFADesign_toNFA(design))

\* C22: the macro-states returned are closed under the rules returned: the
\* source and the target of every rule are, by members, among them.
C22_DiscoveredClosedUnderRules ==
  Discovered =>
    \A i \in 1..Len(discovery.rules) :
       /\ discovery.rules[i].state \in Range(discovery.states)
       /\ discovery.rules[i].nextState \in Range(discovery.states)

\* C23: the rules returned hold exactly one rule for each pair of a
\* discovered macro-state and a symbol of the alphabet, none labelled with
\* the free move, so they number the distinct macro-states times the
\* symbols.
C23_OneRulePerStateAndSymbol ==
  Discovered =>
    LET alphabet == Range(NFARulebook_alphabet(nfaDesign.rulebook))
        rulesOf(state, character) ==
          {k \in 1..Len(discovery.rules) :
             /\ discovery.rules[k].state = state
             /\ discovery.rules[k].character = character}
    IN  /\ \A state \in Range(discovery.states) : \A character \in alphabet :
              Cardinality(rulesOf(state, character)) = 1
        /\ \A k \in 1..Len(discovery.rules) :
              discovery.rules[k].character \in alphabet \ {EPSILON}
        /\ Len(discovery.rules)
             = Cardinality(Range(discovery.states)) * Cardinality(alphabet)

\* C24: macro-states are compared by value: the collection returned never
\* holds two macro-states with the same members.
C24_NoMacroStateTwice ==
  Discovered =>
    \A i, j \in 1..Len(discovery.states) :
       discovery.states[i] = discovery.states[j] => i = j

\* C25: discovery only grows: the macro-state discovery was called with, the
\* start state of the emitted DFA, is among the macro-states returned and is
\* the source of returned rules.
C25_StartMacroStateKept ==
  Discovered =>
    /\ StartMacroState(nfaDesign) \in Range(discovery.states)
    /\ \A character \in Range(NFARulebook_alphabet(nfaDesign.rulebook)) :
          \E k \in 1..Len(discovery.rules) :
             /\ discovery.rules[k].state = StartMacroState(nfaDesign)
             /\ discovery.rules[k].character = character

\* C28: when the NFA's alphabet is empty (no rules, or epsilon rules only),
\* discovery returns no rules and one macro-state, the start macro-state,
\* in its first round.
C28_EmptyAlphabetOneState ==
  (discovery.pc \in {"running", "returned"}
     /\ NFARulebook_alphabet(nfaDesign.rulebook) = <<>>) =>
    /\ discovery.rounds = 1
    /\ discovery.states = <<StartMacroState(nfaDesign)>>
    /\ discovery.rules = <<>>

\* Witness of C28: discovery has returned for a rulebook of epsilon rules
\* only, with a start macro-state of several members.
C28_Witness ==
  /\ Discovered
  /\ nfaDesign.rulebook # <<>>
  /\ NFARulebook_alphabet(nfaDesign.rulebook) = <<>>
  /\ Cardinality(StartMacroState(nfaDesign)) >= 2
  /\ discovery.states = <<StartMacroState(nfaDesign)>>

-----------------------------------------------------------------------------
(* Claims on the DFA design toDFADesign() emits.                            *)

DesignEmitted == last.op = "toDFADesign"

\* The macro-states the discovery toDFADesign() runs returns.
DiscoveredStates(design) ==
  Range(NFASimulation_discoverStatesAndRules(design, <<StartMacroState(design)>>).states)

\* C26: the accept states of the DFA design toDFADesign emits are exactly
\* the discovered macro-states whose epsilon-closure holds at least one
\* accept state of the NFA.
C26_AcceptStatesAreAcceptingMacroStates ==
  DesignEmitted =>
    Range(dfaDesign.acceptStates) =
      {state \in DiscoveredStates(nfaDesign) :
         EpsilonReachable(nfaDesign, state) \cap nfaDesign.acceptStates # {}}

\* Witness of C26: the design emitted has a macro-state that is an accept
\* state although one of its members is not an NFA accept state, and a
\* discovered macro-state with members that is no accept state.
C26_Witness ==
  /\ DesignEmitted
  /\ \E state \in Range(dfaDesign.acceptStates) : ~(state \subseteq nfaDesign.acceptStates)
  /\ \E state \in DiscoveredStates(nfaDesign) :
        state # {} /\ state \notin Range(dfaDesign.acceptStates)

\* The states some rule of the design leads to on character from a member
\* of states.
ReachedOn(design, states, character) ==
  {design.rulebook[i].nextState : i \in
     {j \in 1..Len(design.rulebook) :
        /\ design.rulebook[j].state \in states
        /\ design.rulebook[j].character = character}}

ClosureOfReached(design, states, character) ==
  EpsilonReachable(design,
    ReachedOn(design, EpsilonReachable(design, states), character))

NextStateCalled == discovery.pc = "nextState"

\* C27: nextState(S, a) is the epsilon-closure of the states reached on a
\* from the epsilon-closure of S; the start state of the DFA design
\* toDFADesign emits, which is the macro-state its discovery starts from, is
\* the epsilon-closure of the NFA's start state, and every target of a rule
\* discovered is epsilon-closed.
C27_NextStateIsClosureOfMove ==
  /\ NextStateCalled =>
       discovery.rules[1].nextState =
         ClosureOfReached(nfaDesign, discovery.states[1], discovery.rules[1].character)
  /\ (discovery.pc = "running" /\ discovery.rounds = 1) =>
       discovery.states = <<EpsilonReachable(nfaDesign, {nfaDesign.startState})>>
  /\ Discovered =>
       /\ NFASimulation_toDFADesign(nfaDesign).startState =
            EpsilonReachable(nfaDesign, {nfaDesign.startState})
       /\ \A i \in 1..Len(discovery.rules) :
            /\ EpsilonClosed(nfaDesign.rulebook, discovery.rules[i].nextState)
            /\ discovery.rules[i].nextState =
                 ClosureOfReached(nfaDesign, discovery.rules[i].state,
                                  discovery.rules[i].character)

\* Witness of C27: nextState was called on a set that is not epsilon-closed
\* and returned more than the states its members reach on the character and
\* more than the targets of the rules that read it.
C27_Witness ==
  /\ NextStateCalled
  /\ ~EpsilonClosed(nfaDesign.rulebook, discovery.states[1])
  /\ ReachedOn(nfaDesign, discovery.states[1], discovery.rules[1].character) # {}
  /\ discovery.rules[1].nextState #
       ReachedOn(nfaDesign, discovery.states[1], discovery.rules[1].character)
  /\ discovery.rules[1].nextState #
       ReachedOn(nfaDesign, EpsilonReachable(nfaDesign, discovery.states[1]),
                 discovery.rules[1].character)

-----------------------------------------------------------------------------
(* Claims on DFA.readString as a fold of readCharacter.                     *)

\* The outcome of readCharacter on each symbol of string in turn, from the
\* machine given: position k holds the outcome of the k-th read, or the
\* first read that threw if there is one among the first k.
CharacterByCharacter(design, machine, string) ==
  LET outcome[k \in 0..Len(string)] ==
        IF k = 0 THEN Returned(machine)
        ELSE IF outcome[k - 1].thrown # "none" THEN outcome[k - 1]
        ELSE DFA_readCharacter(design, outcome[k - 1].value, string[k])
  IN  outcome

\* C29: a readString(s) that returns leaves the machine in the state that
\* readCharacter on each symbol of s, left to right, leads to; no read is
\* left out once the machine has been in an accept state.
C29_ReadStringFoldsReadCharacter ==
  (last.op = "readString" /\ last.thrown = "none") =>
    LET outcome == CharacterByCharacter(dfaDesign, DFA_new(last.from), last.string)
    IN  /\ \A k \in 0..Len(last.string) : outcome[k].thrown = "none"
        /\ dfa = outcome[Len(last.string)].value

\* Witness of C29: a readString returned although the machine was in an
\* accept state after a proper prefix, and the symbols after that prefix
\* took it to another state, which is no accept state.
C29_Witness ==
  /\ last.op = "readString"
  /\ last.thrown = "none"
  /\ ~DFA_accepting(dfaDesign, dfa)
  /\ \E k \in 1..(Len(last.string) - 1) :
        LET passed == CharacterByCharacter(dfaDesign, DFA_new(last.from), last.string)[k].value
        IN  DFA_accepting(dfaDesign, passed) /\ passed # dfa

\* C30: a readCharacter that throws leaves currentState as it was, and a
\* readString that throws part-way leaves the machine in the state the
\* longest prefix it could read leads to.
C30_FailedReadKeepsState ==
  /\ (last.op = "readCharacter" /\ last.thrown # "none") =>
       dfa.currentState = last.from
  /\ (last.op = "readString" /\ last.thrown # "none") =>
       LET outcome == CharacterByCharacter(dfaDesign, DFA_new(last.from), last.string)
           readable == {k \in 0..Len(last.string) : outcome[k].thrown = "none"}
           longest == CHOOSE k \in readable : \A j \in readable : j <= k
       IN  /\ longest < Len(last.string)
           /\ dfa = outcome[longest].value

\* Witness of C30: a readString threw the no-rule Error after a prefix that
\* moved the machine to a state that is neither the one it started in nor
\* the design's start state.
C30_Witness ==
  /\ last.op = "readString"
  /\ last.thrown = "Error"
  /\ dfa.currentState # last.from
  /\ dfa.currentState # dfaDesign.startState

-----------------------------------------------------------------------------
(* Claims on the designs Concatenate, Repeat and Choose compile to, read    *)
(* off the design returned and the designs of the operands.                 *)

JustCompiled(type) == compiled.op = "toNFADesign" /\ pattern.type = type

\* The epsilon rules from each of the states to the target.
EpsilonLinks(fromStates, target) ==
  {Rule(state, EPSILON, target) : state \in fromStates}

\* C31: the design of Concatenate(p, q) starts in p's start state, accepts
\* in q's accept states and in none of p's, and its rules are p's rules,
\* q's rules and one epsilon rule from each accept state of p to q's start
\* state.
C31_ConcatenateDesign ==
  JustCompiled("Concatenate") =>
    LET p == compiled.operands[1]
        q == compiled.operands[2]
        design == compiled.design
    IN  /\ design.startState = p.startState
        /\ Range(design.acceptStates) = Range(q.acceptStates)
        /\ Range(design.acceptStates) \cap Range(p.acceptStates) = {}
        /\ Range(design.rulebook) =
             Range(p.rulebook) \cup Range(q.rulebook)
               \cup EpsilonLinks(Range(p.acceptStates), q.startState)
        /\ Len(design.rulebook) =
             Len(p.rulebook) + Len(q.rulebook) + Cardinality(Range(p.acceptStates))

\* Witness of C31: a Concatenate has been compiled whose first operand has
\* two accept states, and whose operands both have rules.
C31_Witness ==
  /\ JustCompiled("Concatenate")
  /\ Cardinality(Range(compiled.operands[1].acceptStates)) = 2
  /\ compiled.operands[1].rulebook # <<>>
  /\ compiled.operands[2].rulebook # <<>>

\* C32: the design of Repeat(p) starts in a fresh state, accepts in p's
\* accept states and that start state, and its rules are p's rules, an
\* epsilon rule from the fresh start to p's start and one from every accept
\* state of p back to p's start; the design of Choose(p, q) starts in a
\* fresh state with an epsilon rule to each operand's start, accepts in the
\* union of the accept states, and has both rulebooks besides.
C32_RepeatAndChooseDesigns ==
  /\ JustCompiled("Repeat") =>
       LET p == compiled.operands[1]
           design == compiled.design
       IN  /\ design.startState \notin DesignStates(p)
           /\ Range(design.acceptStates) = Range(p.acceptStates) \cup {design.startState}
           /\ Range(design.rulebook) =
                Range(p.rulebook)
                  \cup {Rule(design.startState, EPSILON, p.startState)}
                  \cup EpsilonLinks(Range(p.acceptStates), p.startState)
  /\ JustCompiled("Choose") =>
       LET p == compiled.operands[1]
           q == compiled.operands[2]
           design == compiled.design
       IN  /\ design.startState \notin DesignStates(p) \cup DesignStates(q)
           /\ Range(design.acceptStates) = Range(p.acceptStates) \cup Range(q.acceptStates)
           /\ Range(design.rulebook) =
                Range(p.rulebook) \cup Range(q.rulebook)
                  \cup {Rule(design.startState, EPSILON, p.startState),
                        Rule(design.startState, EPSILON, q.startState)}
           /\ Len(design.rulebook) = Len(p.rulebook) + Len(q.rulebook) + 2

\* Witness of C32: a Repeat of a Choose has been compiled: the operand's
\* design has two accept states, each led back to its start, and its start
\* state is one the Choose allocated.
C32_Witness ==
  /\ JustCompiled("Repeat")
  /\ pattern.pattern.type = "Choose"
  /\ Cardinality(Range(compiled.operands[1].acceptStates)) = 2
  /\ Cardinality(Range(compiled.design.rulebook)) >= 7

\* The generator as it is after n identifiers were handed out.
GeneratorAfter(n) == [state |-> n, yielded |-> [i \in 1..n |-> i - 1]]

-----------------------------------------------------------------------------
(* Pushdown automata of any small rulebook.  followFreeMoves is recursive   *)
(* in the source and is followed call by call here: verdict holds the       *)
(* activation, its argument, the configuration the latest call was handed   *)
(* and the one before.  A read is made on a design whose free moves come to *)
(* an end from every configuration, so that the getter it calls returns;    *)
(* on any other design the getter, and the read with it, ends in the        *)
(* RangeError of the activation.                                            *)

MaxPDARules == 2       \* rules in an enumerated DPDA rulebook
MaxPDALen == 2         \* characters a machine of an enumerated design reads
MaxFreeMoveCalls == 4  \* nested calls of followFreeMoves followed

PDARules ==
  [state : {1, STUCK_STATE}, character : {"(", FREE_MOVE}, nextState : {1, 2},
   popCharacter : {"$"}, pushCharacters : {<<"$">>, <<"b", "$">>}]

PDADesigns ==
  {DPDADesign(1, "$", <<1>>, rulebook) : rulebook \in SeqsUpTo(PDARules, MaxPDARules)}
    \cup {BracketDPDADesign}

\* The configurations a machine of an enumerated design can be in.
PDAConfigurations ==
  [state : {1, 2, STUCK_STATE}, stack : {<<>>, <<"$">>, <<"b", "$">>}]

\* followFreeMoves returns within the given number of nested calls.
RECURSIVE FreeMovesReturn(_, _, _)
FreeMovesReturn(rulebook, configuration, nested) ==
  IF ~DPDARulebook_appliesTo(rulebook, configuration, FREE_MOVE) THEN TRUE
  ELSE IF nested = 0 THEN FALSE
  ELSE FreeMovesReturn(rulebook,
         DPDARulebook_nextConfiguration(rulebook, configuration, FREE_MOVE), nested - 1)

GetterReturns(design) ==
  \/ design = BracketDPDADesign
  \/ \A configuration \in PDAConfigurations :
        FreeMovesReturn(design.rulebook, configuration, MaxFreeMoveCalls)

InitPDA ==
  /\ dpdaDesign \in PDADesigns
  /\ dpda = DPDADesign_toDPDA(dpdaDesign)
  /\ consumed = <<>>
  /\ verdict = NoVerdict
  /\ AutomataIdle /\ RegexIdle /\ DiscoveryIdle /\ SemanticsIdle

\* get currentConfiguration: rulebook.followFreeMoves(this._currentConfiguration)
CallFreeMovesPDA ==
  /\ verdict.op # "followFreeMoves"
  /\ verdict' = [op |-> "followFreeMoves", pc |-> "running", calls |-> 1,
                 argument |-> dpda.rawConfiguration,
                 from |-> dpda.rawConfiguration, rule |-> 0,
                 configuration |-> dpda.rawConfiguration]
  /\ UNCHANGED <<dpdaDesign, dpda, consumed, beyondPushdown>>

\* One activation of followFreeMoves: return the configuration, or follow
\* the free move and call again.  The engine's call stack, MaxFreeMoveCalls
\* deep here, overflows on the call after the last it has room for: a
\* RangeError, and no configuration is returned.
StepFreeMovesPDA ==
  /\ verdict.op = "followFreeMoves"
  /\ verdict.pc = "running"
  /\ IF ~DPDARulebook_appliesTo(dpdaDesign.rulebook, verdict.configuration, FREE_MOVE)
       THEN verdict' = [verdict EXCEPT !.pc = "returned"]
       ELSE IF verdict.calls = MaxFreeMoveCalls
              THEN verdict' = [verdict EXCEPT !.pc = "thrown"]
              ELSE verdict' =
                     [verdict EXCEPT
                        !.calls = @ + 1,
                        !.from = verdict.configuration,
                        !.rule = DPDARulebook_ruleFor(dpdaDesign.rulebook,
                                                      verdict.configuration, FREE_MOVE),
                        !.configuration =
                           DPDARulebook_nextConfiguration(dpdaDesign.rulebook,
                                                          verdict.configuration, FREE_MOVE)]
  /\ UNCHANGED <<dpdaDesign, dpda, consumed, beyondPushdown>>

\* dpda.readCharacter(character)
ReadCharacterPDA(character) ==
  /\ IF verdict.op = "followFreeMoves" THEN verdict.pc = "returned" ELSE TRUE
  /\ Len(consumed) < MaxPDALen
  /\ GetterReturns(dpdaDesign)
  /\ dpda' = DPDA_readCharacter(dpdaDesign, dpda, character)
  /\ consumed' = Append(consumed, character)
  /\ verdict' = [op |-> "readCharacter", character |-> character,
                 from |-> DPDA_currentConfiguration(dpdaDesign, dpda)]
  /\ UNCHANGED <<dpdaDesign, beyondPushdown>>

\* dpda.readString(characters), on a machine fresh from its design.
ReadStringPDA(characters) ==
  /\ verdict.op = "none"
  /\ GetterReturns(dpdaDesign)
  /\ dpda' = DPDA_readString(dpdaDesign, dpda, characters)
  /\ consumed' = characters
  /\ verdict' = [op |-> "readString", characters |-> characters,
                 from |-> DPDA_currentConfiguration(dpdaDesign, dpda)]
  /\ UNCHANGED <<dpdaDesign, beyondPushdown>>

NextPDA ==
  \/ CallFreeMovesPDA
  \/ StepFreeMovesPDA
  \/ \E character \in Brackets : ReadCharacterPDA(character)
  \/ \E characters \in StringsUpTo(Brackets, MaxPDALen) : ReadStringPDA(characters)

SpecPDA == InitPDA /\ [][NextPDA]_vars /\ WF_vars(StepFreeMovesPDA)

\* The rulebook has no rule in the stuck state and the stuck state is no
\* accept state.
StuckIsDead(design) ==
  /\ \A i \in 1..Len(design.rulebook) : design.rulebook[i].state # STUCK_STATE
  /\ STUCK_STATE \notin Range(design.acceptStates)

\* The machines readCharacter makes of a fresh machine, symbol by symbol,
\* up to and including the first symbol that leaves it stuck.
ReadUntilStuck(design, characters) ==
  LET machine[k \in 0..Len(characters)] ==
        IF k = 0 THEN DPDADesign_toDPDA(design)
        ELSE IF k > 1 /\ DPDA_currentConfiguration(design, machine[k - 1]).state = STUCK_STATE
               THEN machine[k - 1]
               ELSE DPDA_readCharacter(design, machine[k - 1], characters[k])
  IN  machine[Len(characters)]

\* C34: a readCharacter for which no rule applies to the free-move-closed
\* configuration leaves the machine stuck: state -1 and the stack of that
\* configuration.  With no rule in state -1 and -1 no accept state, a stuck
\* machine stays as it is under every further readCharacter and is not
\* accepting; and readString reads no symbol after the one that left the
\* machine stuck.
C34_StuckStaysStuck ==
  /\ (verdict.op = "readCharacter"
        /\ ~DPDARulebook_appliesTo(dpdaDesign.rulebook, verdict.from, verdict.character)) =>
       dpda.rawConfiguration = [state |-> -1, stack |-> verdict.from.stack]
  /\ (StuckIsDead(dpdaDesign) /\ dpda.rawConfiguration.state = -1) =>
       /\ ~DPDA_accepting(dpdaDesign, dpda)
       /\ DPDA_currentConfiguration(dpdaDesign, dpda) = dpda.rawConfiguration
  /\ (StuckIsDead(dpdaDesign) /\ verdict.op = "readCharacter" /\ verdict.from.state = -1) =>
       dpda.rawConfiguration = verdict.from
  /\ verdict.op = "readString" =>
       dpda = ReadUntilStuck(dpdaDesign, verdict.characters)

\* Witness of C34: readString was handed two symbols, the first left the
\* machine stuck, and a rule of the rulebook would have applied to the
\* second.
C34_Witness ==
  /\ verdict.op = "readString"
  /\ Len(verdict.characters) = 2
  /\ dpda = DPDA_readCharacter(dpdaDesign, DPDADesign_toDPDA(dpdaDesign), verdict.characters[1])
  /\ dpda.rawConfiguration.state = -1
  /\ DPDARulebook_appliesTo(dpdaDesign.rulebook, dpda.rawConfiguration, verdict.characters[2])

\* C35: follow(configuration) returns the rule's nextState and the stack of
\* the configuration with its top removed and the push characters on it,
\* the first of them on top, in their order; the configuration handed in,
\* the machine's own when the getter calls followFreeMoves, is unchanged.
C35_FollowPopsThenPushes ==
  /\ (verdict.op = "followFreeMoves" /\ verdict.rule # 0) =>
       LET rule == dpdaDesign.rulebook[verdict.rule]
       IN  /\ verdict.configuration.state = rule.nextState
           /\ verdict.configuration.stack = rule.pushCharacters \o Tail(verdict.from.stack)
  /\ verdict.op = "followFreeMoves" =>
       /\ dpda.rawConfiguration = verdict.argument
       /\ verdict.calls = 1 => verdict.configuration = dpda.rawConfiguration
  /\ (verdict.op = "readCharacter"
        /\ DPDARulebook_appliesTo(dpdaDesign.rulebook, verdict.from, verdict.character)) =>
       LET rule == dpdaDesign.rulebook[DPDARulebook_ruleFor(dpdaDesign.rulebook,
                                                           verdict.from, verdict.character)]
       IN  dpda.rawConfiguration =
             [state |-> rule.nextState,
              stack |-> rule.pushCharacters \o Tail(verdict.from.stack)]

\* Witness of C35: a free move that pushes two characters was followed from
\* the machine's own configuration, which has one character on its stack.
C35_Witness ==
  /\ verdict.op = "followFreeMoves"
  /\ verdict.rule # 0
  /\ verdict.from = dpda.rawConfiguration
  /\ Len(dpdaDesign.rulebook[verdict.rule].pushCharacters) = 2
  /\ Len(verdict.configuration.stack) = 2
  /\ verdict.configuration.stack[1] # verdict.configuration.stack[2]

\* C36: followFreeMoves terminates for every rulebook and configuration:
\* an activation that is running leads to one that has returned, and the
\* configuration it returns is one no free move applies to.
C36_FreeMovesTerminate ==
  /\ []((verdict.op = "followFreeMoves" /\ verdict.pc = "returned") =>
          ~DPDARulebook_appliesTo(dpdaDesign.rulebook, verdict.configuration, FREE_MOVE))
  /\ (verdict.op = "followFreeMoves" /\ verdict.pc = "running")
       ~> (verdict.op = "followFreeMoves" /\ verdict.pc = "returned")

-----------------------------------------------------------------------------
(* One call of reduce() on an expression or a statement, as the tests make  *)
(* it: a receiver and an environment drawn from bounded sets.               *)

MaxReduceValue == 2

ReduceNames == {"x", "y"}
ReduceValues == 1..MaxReduceValue
Atoms == {SNumber(value) : value \in ReduceValues} \cup {SVariable("x")}
Sums ==
  {SAdd(left, right) : left \in Atoms, right \in Atoms}
    \cup {SMultiply(left, right) : left \in Atoms, right \in Atoms}
ReduceOperands == Atoms \cup Sums
ReduceExpressions ==
  {SAdd(left, right) : left \in ReduceOperands, right \in ReduceOperands}
    \cup {SMultiply(left, right) : left \in ReduceOperands, right \in ReduceOperands}
    \cup {SLessThan(left, right) : left \in ReduceOperands, right \in ReduceOperands}
    \cup {SVariable("x")}
Conditions ==
  {SLessThan(left, right) : left \in Atoms, right \in Atoms}
    \cup {SBoolean(TRUE), SBoolean(FALSE)}
Assignments == {SAssign(name, expression) : name \in ReduceNames, expression \in ReduceOperands}
SimpleStatements == Assignments \cup {SDoNothing}
Loops == {SWhile(condition, body) : condition \in Conditions, body \in SimpleStatements}
Branches ==
  {SIf(condition, consequence, SDoNothing) :
     condition \in Conditions, consequence \in SimpleStatements}
Sequences ==
  {SSequence(first, second) :
     first \in SimpleStatements \cup Loops \cup Branches,
     second \in {SDoNothing, SAssign("y", SNumber(1))}}
ReduceStatements == Assignments \cup Loops \cup Branches \cup Sequences

\* Every environment binds x, which the expressions read; some bind y too.
ReduceEnvironments ==
  {[name \in {"x"} |-> SNumber(x)] : x \in ReduceValues}
    \cup {[name \in ReduceNames |-> SNumber(IF name = "x" THEN x ELSE y)] :
            x \in ReduceValues, y \in ReduceValues}

ExpressionTypes == {"SAdd", "SMultiply", "SLessThan", "SVariable"}

\* A call that has not returned yet: its receiver and its argument.
Called(receiver, environment) ==
  [op |-> "called", receiver |-> receiver, environment |-> environment]

InitReduce ==
  /\ \E receiver \in ReduceExpressions \cup ReduceStatements,
        environment \in ReduceEnvironments :
       reduction = Called(receiver, environment)
  /\ statementMachine = NoMachine
  /\ program = NoProgram
  /\ AutomataIdle /\ RegexIdle /\ DiscoveryIdle /\ PushdownIdle

\* The argument object when statement.reduce(environment) returns: no reduce
\* assigns to a property of its argument, and SAssign.reduce builds the
\* environment it returns by spreading the argument into a new object.
ArgumentAfter(statement, environment) == environment

\* expression.reduce(environment), the first half of SExpressionMachine.step
ReduceExpression ==
  /\ reduction.op = "called"
  /\ reduction.receiver.type \in ExpressionTypes
  /\ reduction' = [op |-> "reduce", receiver |-> reduction.receiver,
                   environment |-> reduction.environment,
                   returned |-> SExpression_reduce(reduction.receiver,
                                                   reduction.environment)]
  /\ UNCHANGED <<statementMachine, program, beyondSemantics>>

\* statement.reduce(environment), the first half of SStatementMachine.step;
\* `passed` is the argument object as the call leaves it.
ReduceStatement ==
  /\ reduction.op = "called"
  /\ reduction.receiver.type \notin ExpressionTypes
  /\ reduction' = [op |-> "reduce", receiver |-> reduction.receiver,
                   environment |-> reduction.environment,
                   returned |-> SStatement_reduce(reduction.receiver,
                                                  reduction.environment),
                   passed |-> ArgumentAfter(reduction.receiver,
                                            reduction.environment)]
  /\ UNCHANGED <<statementMachine, program, beyondSemantics>>

NextReduce == ReduceExpression \/ ReduceStatement

SpecReduce == InitReduce /\ [][NextReduce]_vars

Reduces(types) == reduction.op = "reduce" /\ reduction.receiver.type \in types

BinaryTypes == {"SAdd", "SMultiply", "SLessThan"}

\* What a binary node of irreducible operands computes.
Computed(node) ==
  CASE node.type = "SAdd" -> SNumber(node.left.value + node.right.value)
    [] node.type = "SMultiply" -> SNumber(node.left.value * node.right.value)
    [] node.type = "SLessThan" -> SBoolean(node.left.value < node.right.value)

\* after is before with one place rewritten: its leftmost innermost
\* reducible node, replaced by what that node alone reduces to.
RECURSIVE LeftmostPlaceRewritten(_, _, _)
LeftmostPlaceRewritten(before, after, environment) ==
  IF before.type = "SVariable"
    THEN after = environment[before.name]
  ELSE IF before.type \notin BinaryTypes
    THEN FALSE
  ELSE IF Reducible(before.left)
    THEN /\ after.type = before.type
         /\ after.right = before.right
         /\ LeftmostPlaceRewritten(before.left, after.left, environment)
  ELSE IF Reducible(before.right)
    THEN /\ after.type = before.type
         /\ after.left = before.left
         /\ LeftmostPlaceRewritten(before.right, after.right, environment)
  ELSE after = Computed(before)

-----------------------------------------------------------------------------
(* Big-step semantics: eval() of every class.  Its environment binds a name *)
(* to a number or a boolean, not to an SNumber or an SBoolean.              *)

RECURSIVE SExpression_eval(_, _)

SVariable_eval(expression, environment) == environment[expression.name]

\* The catch branch (return 0) is never entered: + does not throw.
SAdd_eval(expression, environment) ==
  SExpression_eval(expression.left, environment)
    + SExpression_eval(expression.right, environment)

SMultiply_eval(expression, environment) ==
  SExpression_eval(expression.left, environment)
    * SExpression_eval(expression.right, environment)

SLessThan_eval(expression, environment) ==
  SExpression_eval(expression.left, environment)
    < SExpression_eval(expression.right, environment)

SExpression_eval(expression, environment) ==
  CASE expression.type \in {"SNumber", "SBoolean"} -> expression.value
    [] expression.type = "SVariable" -> SVariable_eval(expression, environment)
    [] expression.type = "SAdd" -> SAdd_eval(expression, environment)
    [] expression.type = "SMultiply" -> SMultiply_eval(expression, environment)
    [] expression.type = "SLessThan" -> SLessThan_eval(expression, environment)

RECURSIVE SStatement_eval(_, _)

SAssign_eval(statement, environment) ==
  [name \in DOMAIN environment \cup {statement.name} |->
     IF name = statement.name
       THEN SExpression_eval(statement.expression, environment)
       ELSE environment[name]]

SIf_eval(statement, environment) ==
  IF SExpression_eval(statement.condition, environment) = TRUE
    THEN SStatement_eval(statement.consequence, environment)
    ELSE SStatement_eval(statement.alternative, environment)

SSequence_eval(statement, environment) ==
  SStatement_eval(statement.second, SStatement_eval(statement.first, environment))

SWhile_eval(statement, environment) ==
  IF SExpression_eval(statement.condition, environment) = TRUE
    THEN SStatement_eval(statement, SStatement_eval(statement.body, environment))
    ELSE environment

SStatement_eval(statement, environment) ==
  CASE statement.type = "SDoNothing" -> environment
    [] statement.type = "SAssign" -> SAssign_eval(statement, environment)
    [] statement.type = "SIf" -> SIf_eval(statement, environment)
    [] statement.type = "SSequence" -> SSequence_eval(statement, environment)
    [] statement.type = "SWhile" -> SWhile_eval(statement, environment)

\* The big-step environment of the bindings of a small-step environment.
BigStepEnvironment(environment) ==
  [name \in DOMAIN environment |-> environment[name].value]

-----------------------------------------------------------------------------
(* One program run under both semantics: SStatementMachine.run, then eval   *)
(* of the same statement from the same starting bindings.  Every loop of    *)
(* the programs counts x up to its bound or down to 0, so every one ends.   *)

MaxRunValue == 2

RunValues == 0..MaxRunValue
Increment == SAssign("x", SAdd(SVariable("x"), SNumber(1)))
Decrement == SAssign("x", SAdd(SVariable("x"), SNumber(-1)))
RunAssignments ==
  {Increment,
   SAssign("x", SNumber(0)),
   SAssign("y", SAdd(SVariable("y"), SVariable("x"))),
   SAssign("y", SMultiply(SVariable("x"), SNumber(2))),
   SAssign("b", SLessThan(SVariable("y"), SVariable("x")))}
RunConditions ==
  {SLessThan(SVariable("x"), SNumber(n)) : n \in RunValues}
    \cup {SLessThan(SVariable("y"), SVariable("x"))}
RunLoops ==
  {SWhile(SLessThan(SVariable("x"), SNumber(n)), body) :
     n \in RunValues,
     body \in {Increment}
       \cup {SSequence(first, Increment) : first \in RunAssignments \ {Increment}}
       \cup {SIf(SLessThan(SVariable("y"), SVariable("x")), Increment,
                 SSequence(SAssign("y", SNumber(5)), Increment))}}
    \cup {SWhile(SLessThan(SNumber(0), SVariable("x")),
                 SSequence(SAssign("y", SMultiply(SVariable("y"), SVariable("x"))),
                           Decrement))}
RunBranches ==
  {SIf(condition, consequence, alternative) :
     condition \in RunConditions,
     consequence \in RunAssignments \cup {SDoNothing},
     alternative \in RunAssignments \cup {SDoNothing}}
    \cup {SIf(condition, loop, SDoNothing) :
            condition \in RunConditions, loop \in RunLoops}
RunSequences ==
  {SSequence(first, second) :
     first \in RunAssignments \cup RunLoops,
     second \in RunAssignments \cup RunLoops}
RunStatements ==
  RunAssignments \cup {SDoNothing} \cup RunLoops \cup RunBranches \cup RunSequences
RunEnvironments ==
  {[name \in {"x", "y"} |-> SNumber(IF name = "x" THEN x ELSE y)] :
     x \in RunValues, y \in RunValues}

InitRun ==
  /\ \E statement \in RunStatements, environment \in RunEnvironments :
       program = SStatementMachine(statement, environment)
  /\ statementMachine = program
  /\ reduction = NoReduction
  /\ AutomataIdle /\ RegexIdle /\ DiscoveryIdle /\ PushdownIdle

\* statement.eval(environment) of the program, once run() has returned.
Eval ==
  /\ Halted
  /\ reduction = NoReduction
  /\ reduction' = [op |-> "eval", receiver |-> program.statement,
                   environment |-> BigStepEnvironment(program.environment),
                   returned |-> SStatement_eval(program.statement,
                                  BigStepEnvironment(program.environment))]
  /\ UNCHANGED <<statementMachine, program, beyondSemantics>>

NextRun == RunStep \/ Eval

SpecRun == InitRun /\ [][NextRun]_vars

\* C40: small-step and big-step semantics agree: the environment in which
\* SStatementMachine.run halts binds the names, and each of them to the
\* number or boolean, that the big-step eval of the same statement from the
\* same starting environment returns.
C40_SmallStepAgreesWithBigStep ==
  reduction.op = "eval" =>
    /\ statementMachine.statement = SDoNothing
    /\ BigStepEnvironment(statementMachine.environment) = reduction.returned

\* Witness of C40: a sequence that ends in a loop has run and has been
\* evaluated; x and y changed and a boolean was bound.
C40_Witness ==
  /\ reduction.op = "eval"
  /\ program.statement.type = "SSequence"
  /\ program.statement.first =
       SAssign("b", SLessThan(SVariable("y"), SVariable("x")))
  /\ program.statement.second.type = "SWhile"
  /\ program.statement.second.body.type = "SSequence"
  /\ statementMachine.environment["x"] # program.environment["x"]
  /\ statementMachine.environment["y"] # program.environment["y"]
  /\ statementMachine.environment["b"] = SBoolean(TRUE)
  /\ reduction.returned["b"] = TRUE

====
